---------------------------- MODULE Spec2Model ----------------------------
(***************************************************************************)
(* Model of the Oak Functions runtime (mariaschett/oak):                   *)
(*   - the policy shaper  (oak_functions/loader/src/server.rs:             *)
(*     Policy::validate, FixedSizeBodyPadder::pad, apply_policy),          *)
(*   - the lookup data manager (oak_functions/lookup/src/lib.rs),          *)
(*   - the channels between the guest and Uwabi extensions, and their      *)
(*     wiring by WasmHandler::init (oak_functions/loader/src/server.rs),   *)
(*   - the guest ABI and the request handler of the wasm crate             *)
(*     (oak_functions/wasm/src/lib.rs).                                    *)
(* Each component has its own specification over the shared variables; the *)
(* variables of the other components stay at their initial values.         *)
(***************************************************************************)
EXTENDS Integers, Sequences, FiniteSets, TLC

(***************************************************************************)
(* Bounds of the model.                                                    *)
(***************************************************************************)
\* largest N explored is MIN_RESPONSE_SIZE + MaxExtraSize
MaxExtraSize == 1
\* function bodies are explored up to N + MaxOver bytes
MaxOver == 1
\* short bodies: every byte string over SampleBytes up to this length
MaxShortLen == 1
\* the clock runs from 0 to MaxClock milliseconds
MaxClock == 2
\* number of update_data calls explored
MaxUpdates == 2
\* bytes of guest memory
MemorySize == 16
\* an extension keeps at most this many messages pending towards the guest
MaxRuntimePending == 1
\* where the guest does more than write, it keeps at most this many messages
\* pending towards the extension
MaxModulePending == 1
\* a request invokes each extension at most this often
MaxInvokes == 1
\* at most this many factories in a handler
MaxFactories == 2
\* at most this many calls of set_endpoint on extensions that are bound
MaxOffers == 1
\* where the order of the messages matters, at most this many wait in one
\* direction
MaxPending == 2
\* a loader is watched for this many units of time, and refreshes at most
\* every so many
MaxElapsed == 2

(***************************************************************************)
(* Program constants.                                                      *)
(***************************************************************************)
MIN_RESPONSE_SIZE == 50
\* u32::MAX = 4294967295 = U32MaxSecs * 1000 + U32MaxRestMillis
U32MaxSecs == 4294967
U32MaxRestMillis == 295
NanosPerMilli == 1000000
\* messages one direction of a channel holds
UWABI_CHANNEL_BOUND == 100

\* "Reason: response not available."
REASON_NOT_AVAILABLE ==
    <<82, 101, 97, 115, 111, 110, 58, 32, 114, 101, 115, 112, 111, 110, 115,
      101, 32, 110, 111, 116, 32, 97, 118, 97, 105, 108, 97, 98, 108, 101, 46>>
\* "Reason: internal server error."
REASON_INTERNAL ==
    <<82, 101, 97, 115, 111, 110, 58, 32, 105, 110, 116, 101, 114, 110, 97,
      108, 32, 115, 101, 114, 118, 101, 114, 32, 101, 114, 114, 111, 114, 46>>
\* "Reason: the response is too large."
REASON_TOO_LARGE ==
    <<82, 101, 97, 115, 111, 110, 58, 32, 116, 104, 101, 32, 114, 101, 115,
      112, 111, 110, 115, 101, 32, 105, 115, 32, 116, 111, 111, 32, 108, 97,
      114, 103, 101, 46>>

StatusCodes ==
    {"Success", "InternalServerError", "PolicyTimeViolation", "PolicySizeViolation"}

(***************************************************************************)
(* Byte strings used as inputs.                                            *)
(***************************************************************************)
SampleBytes == {0, 104}

\* a body of n non-zero bytes
Fill(n) == [i \in 1..n |-> 1 + (i % 2)]

RECURSIVE SeqsUpTo(_, _)
SeqsUpTo(S, n) ==
    IF n = 0 THEN {<<>>}
    ELSE LET shorter == SeqsUpTo(S, n - 1)
         IN  shorter \cup {Append(s, b) : s \in {t \in shorter : Len(t) = n - 1}, b \in S}

ShortBodies == SeqsUpTo(SampleBytes, MaxShortLen)

\* bodies around the size limit n: n-1, n, n+1 .. n+MaxOver bytes
LongBodies(n) == {Fill(k) : k \in (n - 1)..(n + MaxOver)}

Bodies(n) == ShortBodies \cup LongBodies(n)

(***************************************************************************)
(* Policy::validate                                                        *)
(***************************************************************************)
\* Duration::as_millis(), a u128 in the code; only evaluated here on durations
\* whose millisecond count fits the model's integers
as_millis(d) == d.secs * 1000 + (d.nanos \div NanosPerMilli)

\* u128 -> u32 try_into succeeds iff as_millis(d) <= u32::MAX
millis_fit_u32(d) ==
    \/ d.secs < U32MaxSecs
    \/ d.secs = U32MaxSecs /\ (d.nanos \div NanosPerMilli) <= U32MaxRestMillis

NoServerPolicy ==
    [valid |-> FALSE, constant_response_size_bytes |-> 0, constant_processing_time_ms |-> 0]

\* a variant whose size check is strict
validate_strict(p) ==
    IF ~(p.constant_response_size_bytes > MIN_RESPONSE_SIZE) THEN NoServerPolicy
    ELSE IF ~millis_fit_u32(p.constant_processing_time) THEN NoServerPolicy
    ELSE [valid |-> TRUE,
          constant_response_size_bytes |-> p.constant_response_size_bytes,
          constant_processing_time_ms |-> as_millis(p.constant_processing_time)]

\* Err is modelled by valid = FALSE
validate(p) ==
    IF ~(p.constant_response_size_bytes >= MIN_RESPONSE_SIZE) THEN NoServerPolicy
    ELSE IF ~millis_fit_u32(p.constant_processing_time) THEN NoServerPolicy
    ELSE [valid |-> TRUE,
          constant_response_size_bytes |-> p.constant_response_size_bytes,
          constant_processing_time_ms |-> as_millis(p.constant_processing_time)]

\* Config::policy when the configuration file has no policy
NoPolicy == [policy |-> "None"]

\* a variant that serves under the smallest policy when none is configured
checked_policy_or_default(policy) ==
    IF policy = NoPolicy
    THEN [valid |-> TRUE, constant_response_size_bytes |-> MIN_RESPONSE_SIZE,
          constant_processing_time_ms |-> 0]
    ELSE validate(policy)

\* config.policy.as_ref().ok_or_else(..).and_then(|policy| policy.validate())
checked_policy(policy) ==
    IF policy = NoPolicy THEN NoServerPolicy ELSE validate(policy)

(***************************************************************************)
(* FixedSizeBodyPadder::pad                                                *)
(***************************************************************************)
\* a variant that fills with a non-zero byte
resize_fill_one(body, body_size) ==
    [i \in 1..body_size |-> IF i <= Len(body) THEN body[i] ELSE 1]

\* Vec::resize(body_size, 0) on a vector no longer than body_size
resize(body, body_size) ==
    [i \in 1..body_size |-> IF i <= Len(body) THEN body[i] ELSE 0]

PadErr == [ok |-> FALSE, status |-> "none", body |-> <<>>, length |-> 0]

\* a variant that refuses a body of exactly body_size bytes
pad_strict(r, body_size) ==
    IF Len(r.body) < body_size
    THEN [ok |-> TRUE, status |-> r.status,
          body |-> resize(r.body, body_size), length |-> Len(r.body)]
    ELSE PadErr

pad(r, body_size) ==
    IF Len(r.body) <= body_size
    THEN [ok |-> TRUE, status |-> r.status,
          body |-> resize(r.body, body_size), length |-> Len(r.body)]
    ELSE PadErr

(***************************************************************************)
(* apply_policy after the sleep: sampling the task and shaping             *)
(***************************************************************************)
\* outcome of the wrapped function once its task has finished
Outcome(kind, status, body) == [kind |-> kind, status |-> status, body |-> body]
NoOutcome == Outcome("none", "none", <<>>)

\* a variant in which dropping the JoinHandle aborts a running task
JoinHandle_drop_aborts(task) ==
    IF task.state = "running" THEN [task EXCEPT !.state = "aborted"] ELSE task

\* now_or_never consumes the JoinHandle; dropping a JoinHandle detaches the
\* task, which keeps running
JoinHandle_drop(task) == task

\* task.now_or_never(): None while the task runs
now_or_never(task) ==
    IF task.state = "done" THEN task.outcome ELSE NoOutcome

\* a variant that treats an unfinished function as an internal error
select_response_no_timeout(function_response) ==
    CASE function_response.kind \in {"none", "panic"} ->
            [status |-> "InternalServerError", body |-> REASON_INTERNAL]
      [] function_response.kind = "err" ->
            [status |-> "InternalServerError", body |-> function_response.body]
      [] function_response.kind = "ok" ->
            [status |-> function_response.status, body |-> function_response.body]

\* a variant that answers an error of the function with the canned reason
select_response_canned_error(function_response) ==
    CASE function_response.kind = "none" ->
            [status |-> "PolicyTimeViolation", body |-> REASON_NOT_AVAILABLE]
      [] function_response.kind \in {"panic", "err"} ->
            [status |-> "InternalServerError", body |-> REASON_INTERNAL]
      [] function_response.kind = "ok" ->
            [status |-> function_response.status, body |-> function_response.body]

\* a variant that takes a panicked task for one that has not finished
select_response_panic_unfinished(function_response) ==
    CASE function_response.kind \in {"none", "panic"} ->
            [status |-> "PolicyTimeViolation", body |-> REASON_NOT_AVAILABLE]
      [] function_response.kind = "err" ->
            [status |-> "InternalServerError", body |-> function_response.body]
      [] function_response.kind = "ok" ->
            [status |-> function_response.status, body |-> function_response.body]

\* the match on function_response
select_response(function_response) ==
    CASE function_response.kind = "none" ->
            [status |-> "PolicyTimeViolation", body |-> REASON_NOT_AVAILABLE]
      [] function_response.kind = "panic" ->
            [status |-> "InternalServerError", body |-> REASON_INTERNAL]
      [] function_response.kind = "err" ->
            [status |-> "InternalServerError", body |-> function_response.body]
      [] function_response.kind = "ok" ->
            [status |-> function_response.status, body |-> function_response.body]

\* a variant without the size rule
enforce_size_skipped(response, n) == response

\* a variant that flags a body of exactly n bytes
enforce_size_at_limit(response, n) ==
    IF Len(response.body) >= n
    THEN [status |-> "PolicySizeViolation", body |-> REASON_TOO_LARGE]
    ELSE response

\* a variant that applies the size rule to successful responses only
enforce_size_of_success(response, n) ==
    IF response.status = "Success" /\ Len(response.body) > n
    THEN [status |-> "PolicySizeViolation", body |-> REASON_TOO_LARGE]
    ELSE response

\* the size rule
enforce_size(response, n) ==
    IF Len(response.body) > n
    THEN [status |-> "PolicySizeViolation", body |-> REASON_TOO_LARGE]
    ELSE response

\* the value apply_policy returns, given what now_or_never sampled
shape(policy, function_response) ==
    pad(enforce_size(select_response(function_response),
                     policy.constant_response_size_bytes),
        policy.constant_response_size_bytes)


(***************************************************************************)
(* State.                                                                  *)
(***************************************************************************)
VARIABLES
    config,     \* the Policy read from the configuration file (not validated)
    startup,    \* "init", "serving" or "failed" (async_main)
    server,     \* the ServerPolicy produced by Policy::validate
    req,        \* per request: the state of its apply_policy call and its task
    padder,     \* a caller of FixedSizeBodyPadder::pad: its input and results
    arcs,       \* the Arc<Data> allocations made so far; an Arc is an index
    mgr,        \* the LookupDataManager: data, data_builder and their locks
    upd,        \* per updater: the state of its update_data call
    rd,         \* per reader (a request): its LookupData and its last lookup
    hist,       \* history: the updates completed so far
    extension_factories,  \* WasmHandler: the factories, in their order
    channels,   \* the mpsc channels made by channel_create, two per call
    channel_switchboard,  \* WasmState: ChannelHandle -> the hosted Endpoint
    uwabi_extensions,     \* WasmState: the Vec of Uwabi extensions, each with its Endpoint
    memory,     \* the guest's linear memory, a byte per address
    abi,        \* the guest's latest channel_read or channel_write and its result
    flight,     \* history: per sending side, the messages sent and not yet received
    user_state, \* wasm crate: UserState (response_bytes, extensions)
    handler,    \* wasm crate: where handle_raw_invoke is, and what it returned
    call,       \* wasm crate: the guest's latest write_response or invoke
    boot,       \* the start of a loader or launcher and its refresh task
    probe       \* the latest call of a memory helper on its own, and its result

shaperVars == <<config, startup, server, req>>

lookupVars == <<arcs, mgr, upd, rd, hist>>

channelVars == <<extension_factories, channels, channel_switchboard, uwabi_extensions, memory, abi, flight>>

wasmVars == <<user_state, handler, call>>

loaderVars == <<boot>>

helperVars == <<probe>>

vars == <<config, startup, server, req, padder, arcs, mgr, upd, rd, hist,
          extension_factories, channels, channel_switchboard, uwabi_extensions,
          memory, abi, flight, user_state, handler, call, boot, probe>>

\* no interval yet
NoInterval == [deadline |-> 0, period |-> 0]

\* no loader is starting, and no memory helper has been called on its own
IdleBoot == [program |-> "none", source |-> FALSE, period |-> 0, pc |-> "off",
             task |-> "none", now |-> 0, interval |-> NoInterval, loaded_at |-> 0,
             log |-> <<>>]
NoWrite == [dest |-> 0, source |-> <<>>, status |-> "none"]
IdleProbe == [host |-> NoWrite, wasm |-> NoWrite]
IdleLoaderVars == boot = IdleBoot
IdleHelperVars == probe = IdleProbe

Requests == {1, 2}

(***************************************************************************)
(* Inputs of the shaper.                                                   *)
(***************************************************************************)
Sizes == {MIN_RESPONSE_SIZE - 1} \cup (MIN_RESPONSE_SIZE..(MIN_RESPONSE_SIZE + MaxExtraSize))

\* the policies the shaper is run under: 0 ms and 1 ms
ShaperDurations == [secs : {0}, nanos : {0, NanosPerMilli}]

ShaperConfigs ==
    [constant_response_size_bytes : Sizes, constant_processing_time : ShaperDurations]

\* the policies validate is run on: sizes around the minimum; durations
\* around 0 ms, 1 ms and 2 ms, alone, on top of one second, and on top of
\* more seconds than a u32 of milliseconds holds
ConfigSizes == {0} \cup Sizes

Durations ==
    [secs : {0, 1, U32MaxSecs + 1},
     nanos : {0, 1, NanosPerMilli - 1, NanosPerMilli,
              2 * NanosPerMilli - 1, 2 * NanosPerMilli}]

Configs == [constant_response_size_bytes : ConfigSizes, constant_processing_time : Durations]

ErrMsgs(n) == {<<101>>, Fill(n + 1)}

\* what the wrapped function can produce under a policy of size n
FunctionOutcomes(n) ==
    {Outcome("ok", "Success", b) : b \in Bodies(n)}
      \cup {Outcome("ok", "InternalServerError", Fill(n))}
      \cup {Outcome("err", "none", m) : m \in ErrMsgs(n)}
      \cup {Outcome("panic", "none", <<>>)}

IdleRequest ==
    [pc |-> "idle", waited |-> 0,
     task |-> [state |-> "none", outcome |-> NoOutcome, late |-> FALSE, early |-> FALSE],
     sampled |-> NoOutcome, response |-> PadErr]

\* the task fields `late` and `early` record whether the function finished
\* after apply_policy had returned, and whether it finished less than
\* constant_processing_time_ms after the request was accepted

IdlePadder ==
    [pc |-> "idle", r |-> [status |-> "none", body |-> <<>>, length |-> 0],
     body_size |-> 0, once |-> PadErr, twice |-> PadErr]

(***************************************************************************)
(* Channels between the guest and Uwabi extensions                         *)
(* (oak_functions/loader/src/server.rs).                                   *)
(***************************************************************************)
\* ChannelHandle: Unspecified and Testing; from_i32 is None for anything else
ChannelHandles == {"Unspecified", "Testing"}

ChannelHandle_from_i32(channel_handle) ==
    CASE channel_handle = 0 -> "Unspecified"
      [] channel_handle = 1 -> "Testing"
      [] OTHER -> "None"

\* the handles a guest passes: outside the enumeration, Unspecified, Testing
AbiChannelHandles == {-1, 0, 1}

\* the addresses the guest uses: its source buffer, the buffer its alloc
\* returns, and the two cells for a result's address and length
GuestLayout == [src_buf_ptr |-> 0, dest_ptr |-> 4, dest_ptr_ptr |-> 8, dest_len_ptr |-> 12]

\* the message the guest keeps in its source buffer, and what extensions send
GuestMessages == {<<42, 42>>}
RuntimeMessages == {<<43>>, <<42, 21, 0>>}

Addresses == 0..(MemorySize - 1)

\* An AbiPointer or AbiPointerOffset is a u32 that the guest passes as an i32
\* with the same bits: the numbers below 2^31 stand for themselves, and -1
\* down to -2^31 for 2^32 - 1 down to 2^31. A u32 is kept as two 16-bit halves.
Half == 65536

u32(value) == [hi |-> (value \div Half) % Half, lo |-> value % Half]

\* a variant that adds in 32 bits and wraps around
u32_wrapping_add(a, b) ==
    LET lo == a.lo + b.lo
        hi == a.hi + b.hi + lo \div Half
    IN  [top |-> 0, hi |-> hi % Half, lo |-> lo % Half]

\* (addr as usize) + (offset as usize): a usize has 64 bits, so the sum of two
\* u32 keeps its 33rd bit (top)
usize_add(a, b) ==
    LET lo == a.lo + b.lo
        hi == a.hi + b.hi + lo \div Half
    IN  [top |-> hi \div Half, hi |-> hi % Half, lo |-> lo % Half]

\* Bytes(end) <= memory_size
at_most(end, memory_size) ==
    /\ end.top = 0
    /\ \/ end.hi < memory_size \div Half
       \/ end.hi = memory_size \div Half /\ end.lo <= memory_size % Half

\* validate_range, and the bounds check of wasmi's MemoryRef::get and set
validate_range(addr, offset) == at_most(usize_add(u32(addr), u32(offset)), MemorySize)

\* a u32 as four little-endian bytes
le_bytes(value) ==
    <<value % 256, (value \div 256) % 256, (value \div 65536) % 256,
      (value \div 16777216) % 256>>

\* LittleEndian::read_u32
read_u32(bytes) ==
    bytes[1] + 256 * bytes[2] + 65536 * bytes[3] + 16777216 * bytes[4]

read_buffer_from_wasm_memory(mem, buf_ptr, buf_len) ==
    IF validate_range(buf_ptr, buf_len)
    THEN [status |-> "Ok", bytes |-> [i \in 1..buf_len |-> mem[buf_ptr + i - 1]]]
    ELSE [status |-> "ChannelInvalidArgs", bytes |-> <<>>]

write_buffer_to_wasm_memory(mem, source, dest) ==
    IF validate_range(dest, Len(source))
    THEN [status |-> "Ok",
          memory |-> [a \in Addresses |->
                        IF a >= dest /\ a < dest + Len(source)
                        THEN source[a - dest + 1] ELSE mem[a]]]
    ELSE [status |-> "ChannelInvalidArgs", memory |-> mem]

write_u32_to_wasm_memory(mem, value, address) ==
    write_buffer_to_wasm_memory(mem, le_bytes(value), address)

\* alloc_and_write_buffer_to_wasm_memory; dest_ptr is what the guest's alloc
\* returned. Each write that succeeded stays in memory when a later one fails
alloc_and_write_buffer_to_wasm_memory(mem, buffer, dest_ptr, dest_ptr_ptr, dest_len_ptr) ==
    LET w1 == write_buffer_to_wasm_memory(mem, buffer, dest_ptr)
        w2 == write_u32_to_wasm_memory(w1.memory, dest_ptr, dest_ptr_ptr)
        w3 == write_u32_to_wasm_memory(w2.memory, Len(buffer), dest_len_ptr)
    IN  IF w1.status # "Ok" THEN w1
        ELSE IF w2.status # "Ok" THEN w2
        ELSE w3

\* tokio::sync::mpsc::channel(UWABI_CHANNEL_BOUND): an empty queue with its
\* Sender and its Receiver
channel == [queue |-> <<>>, sender |-> "alive", receiver |-> "open"]

\* a variant that takes one message more than the bound
try_send_one_more(ch, message) ==
    IF ch.receiver # "open" THEN [status |-> "Closed", channel |-> ch]
    ELSE IF Len(ch.queue) > UWABI_CHANNEL_BOUND THEN [status |-> "Full", channel |-> ch]
    ELSE [status |-> "Ok", channel |-> [ch EXCEPT !.queue = Append(@, message)]]

\* a variant that does not notice a closed receiver
try_send_ignores_close(ch, message) ==
    IF Len(ch.queue) >= UWABI_CHANNEL_BOUND THEN [status |-> "Full", channel |-> ch]
    ELSE [status |-> "Ok", channel |-> [ch EXCEPT !.queue = Append(@, message)]]

\* Sender::try_send: Closed once the receiver is closed or dropped, Full when
\* the queue holds UWABI_CHANNEL_BOUND messages
try_send(ch, message) ==
    IF ch.receiver # "open" THEN [status |-> "Closed", channel |-> ch]
    ELSE IF Len(ch.queue) >= UWABI_CHANNEL_BOUND THEN [status |-> "Full", channel |-> ch]
    ELSE [status |-> "Ok", channel |-> [ch EXCEPT !.queue = Append(@, message)]]

\* a variant that blocks: an empty queue is reported like a dropped sender
try_recv_no_empty(ch) ==
    IF ch.queue # <<>>
    THEN [status |-> "Ok", message |-> Head(ch.queue),
          channel |-> [ch EXCEPT !.queue = Tail(@)]]
    ELSE [status |-> "Disconnected", message |-> <<>>, channel |-> ch]

\* a variant that does not notice a dropped sender
try_recv_ignores_drop(ch) ==
    IF ch.queue # <<>>
    THEN [status |-> "Ok", message |-> Head(ch.queue),
          channel |-> [ch EXCEPT !.queue = Tail(@)]]
    ELSE [status |-> "Empty", message |-> <<>>, channel |-> ch]

\* a variant that takes the newest message
try_recv_newest(ch) ==
    IF ch.queue # <<>>
    THEN [status |-> "Ok", message |-> ch.queue[Len(ch.queue)],
          channel |-> [ch EXCEPT !.queue = SubSeq(@, 1, Len(@) - 1)]]
    ELSE IF ch.sender = "dropped"
    THEN [status |-> "Disconnected", message |-> <<>>, channel |-> ch]
    ELSE [status |-> "Empty", message |-> <<>>, channel |-> ch]

\* a variant that looks at the sender first: nothing is delivered once it is
\* dropped
try_recv_drop_first(ch) ==
    IF ch.sender = "dropped"
    THEN [status |-> "Disconnected", message |-> <<>>, channel |-> ch]
    ELSE IF ch.queue # <<>>
    THEN [status |-> "Ok", message |-> Head(ch.queue),
          channel |-> [ch EXCEPT !.queue = Tail(@)]]
    ELSE [status |-> "Empty", message |-> <<>>, channel |-> ch]

\* Receiver::try_recv: the oldest message; Disconnected when there is none
\* and the sender is dropped; Empty when there is none and it is alive
try_recv(ch) ==
    IF ch.queue # <<>>
    THEN [status |-> "Ok", message |-> Head(ch.queue),
          channel |-> [ch EXCEPT !.queue = Tail(@)]]
    ELSE IF ch.sender = "dropped"
    THEN [status |-> "Disconnected", message |-> <<>>, channel |-> ch]
    ELSE [status |-> "Empty", message |-> <<>>, channel |-> ch]

\* a variant that wires each endpoint to one channel
channel_create_straight ==
    [endpoint0 |-> [sender |-> 0, receiver |-> 0],
     endpoint1 |-> [sender |-> 1, receiver |-> 1]]

\* channel_create: (tx0, rx0) is channel 0 and (tx1, rx1) is channel 1
channel_create ==
    [endpoint0 |-> [sender |-> 0, receiver |-> 1],
     endpoint1 |-> [sender |-> 1, receiver |-> 0]]

\* ChannelSwitchboard::new
NoEndpoints == [h \in {} |-> [sender |-> 0, receiver |-> 0]]

\* the endpoint of a pair whose two channels are numbered from base on
at(endpoint, base) ==
    [sender |-> endpoint.sender + base, receiver |-> endpoint.receiver + base]

\* an Endpoint is dropped: its Sender is gone, and its Receiver with the
\* messages it had not taken
drop_endpoint(chs, endpoint) ==
    [c \in DOMAIN chs |->
       [queue |-> IF c = endpoint.receiver THEN <<>> ELSE chs[c].queue,
        sender |-> IF c = endpoint.sender THEN "dropped" ELSE chs[c].sender,
        receiver |-> IF c = endpoint.receiver THEN "dropped" ELSE chs[c].receiver]]

\* a variant that keeps the endpoint a handle already has (entry().or_insert)
register_keeps_first(chs, switchboard, channel_handle) ==
    LET base == Cardinality(DOMAIN chs)
        pair == channel_create
        created == [c \in 0..(base + 1) |-> IF c < base THEN chs[c] ELSE channel]
    IN  IF channel_handle \in DOMAIN switchboard
        THEN [channels |-> drop_endpoint(created, at(pair.endpoint1, base)),
              switchboard |-> switchboard,
              endpoint |-> at(pair.endpoint0, base)]
        ELSE [channels |-> created,
              switchboard |-> [h \in (DOMAIN switchboard) \cup {channel_handle} |->
                                 IF h = channel_handle THEN at(pair.endpoint1, base)
                                 ELSE switchboard[h]],
              endpoint |-> at(pair.endpoint0, base)]

\* ChannelSwitchboard::register: channel_create makes two new channels, e2
\* goes into the switchboard and e1 is returned; HashMap::insert replaces the
\* endpoint the handle had, which is dropped
register(chs, switchboard, channel_handle) ==
    LET base == Cardinality(DOMAIN chs)
        pair == channel_create
        kept == IF channel_handle \in DOMAIN switchboard
                THEN drop_endpoint(chs, switchboard[channel_handle])
                ELSE chs
    IN  [channels |-> [c \in 0..(base + 1) |-> IF c < base THEN kept[c] ELSE channel],
         switchboard |-> [h \in (DOMAIN switchboard) \cup {channel_handle} |->
                            IF h = channel_handle THEN at(pair.endpoint1, base)
                            ELSE switchboard[h]],
         endpoint |-> at(pair.endpoint0, base)]

\* a variant that resolves every handle of the enumeration
get_endpoint_any_handle(switchboard, channel_handle) ==
    LET handle == ChannelHandle_from_i32(channel_handle)
    IN  IF handle = "None"
        THEN [status |-> "ChannelHandleInvalid", endpoint |-> channel_create.endpoint1]
        ELSE [status |-> "Ok", endpoint |-> channel_create.endpoint1]

\* get_endpoint_from_channel_handle
get_endpoint_from_channel_handle(switchboard, channel_handle) ==
    LET handle == ChannelHandle_from_i32(channel_handle)
    IN  IF handle = "None"
        THEN [status |-> "ChannelHandleInvalid", endpoint |-> channel_create.endpoint1]
        ELSE IF handle \notin DOMAIN switchboard
        THEN [status |-> "ChannelHandleInvalid", endpoint |-> channel_create.endpoint1]
        ELSE [status |-> "Ok", endpoint |-> switchboard[handle]]

\* from_channel_status_result, after the map_err of channel_read and
\* channel_write
from_channel_status_result(status) ==
    CASE status = "Ok" -> "ChannelOk"
      [] status = "Full" -> "ChannelFull"
      [] status = "Closed" -> "ChannelEndpointClosed"
      [] status = "Empty" -> "ChannelEmpty"
      [] status = "Disconnected" -> "ChannelEndpointDisconnected"
      [] OTHER -> status

\* a variant that leaves the message in the queue when it cannot be written
\* to the guest
channel_read_keeps_unwritten(chs, switchboard, mem, channel_handle, dest_ptr, dest_ptr_ptr, dest_len_ptr) ==
    LET resolved == get_endpoint_from_channel_handle(switchboard, channel_handle)
        received == try_recv(chs[resolved.endpoint.receiver])
        written == alloc_and_write_buffer_to_wasm_memory(
                       mem, received.message, dest_ptr, dest_ptr_ptr, dest_len_ptr)
    IN  IF resolved.status # "Ok"
        THEN [status |-> resolved.status, channels |-> chs, memory |-> mem,
              message |-> <<>>, received |-> FALSE]
        ELSE IF received.status # "Ok"
        THEN [status |-> from_channel_status_result(received.status),
              channels |-> chs, memory |-> mem, message |-> <<>>, received |-> FALSE]
        ELSE IF written.status # "Ok"
        THEN [status |-> from_channel_status_result(written.status),
              channels |-> chs, memory |-> written.memory, message |-> <<>>,
              received |-> FALSE]
        ELSE [status |-> from_channel_status_result(written.status),
              channels |-> [chs EXCEPT ![resolved.endpoint.receiver] = received.channel],
              memory |-> written.memory, message |-> received.message,
              received |-> TRUE]

\* channel_read: resolve the handle, try_recv, then write the message to the
\* guest; a message taken from the queue is gone even when the write fails
channel_read(chs, switchboard, mem, channel_handle, dest_ptr, dest_ptr_ptr, dest_len_ptr) ==
    LET resolved == get_endpoint_from_channel_handle(switchboard, channel_handle)
        received == try_recv(chs[resolved.endpoint.receiver])
        written == alloc_and_write_buffer_to_wasm_memory(
                       mem, received.message, dest_ptr, dest_ptr_ptr, dest_len_ptr)
    IN  IF resolved.status # "Ok"
        THEN [status |-> resolved.status, channels |-> chs, memory |-> mem,
              message |-> <<>>, received |-> FALSE]
        ELSE IF received.status # "Ok"
        THEN [status |-> from_channel_status_result(received.status),
              channels |-> chs, memory |-> mem, message |-> <<>>, received |-> FALSE]
        ELSE [status |-> from_channel_status_result(written.status),
              channels |-> [chs EXCEPT ![resolved.endpoint.receiver] = received.channel],
              memory |-> written.memory, message |-> received.message,
              received |-> TRUE]

\* a variant that resolves the handle before it reads the message
channel_write_handle_first(chs, switchboard, mem, channel_handle, src_buf_ptr, src_buf_len) ==
    LET message == read_buffer_from_wasm_memory(mem, src_buf_ptr, src_buf_len)
        resolved == get_endpoint_from_channel_handle(switchboard, channel_handle)
        sent == try_send(chs[resolved.endpoint.sender], message.bytes)
    IN  IF resolved.status # "Ok"
        THEN [status |-> resolved.status, channels |-> chs, message |-> <<>>]
        ELSE IF message.status # "Ok"
        THEN [status |-> message.status, channels |-> chs, message |-> <<>>]
        ELSE [status |-> from_channel_status_result(sent.status),
              channels |-> [chs EXCEPT ![resolved.endpoint.sender] = sent.channel],
              message |-> message.bytes]

\* channel_write: read the message from the guest, resolve the handle,
\* try_send
channel_write(chs, switchboard, mem, channel_handle, src_buf_ptr, src_buf_len) ==
    LET message == read_buffer_from_wasm_memory(mem, src_buf_ptr, src_buf_len)
        resolved == get_endpoint_from_channel_handle(switchboard, channel_handle)
        sent == try_send(chs[resolved.endpoint.sender], message.bytes)
    IN  IF message.status # "Ok"
        THEN [status |-> message.status, channels |-> chs, message |-> <<>>]
        ELSE IF resolved.status # "Ok"
        THEN [status |-> resolved.status, channels |-> chs, message |-> message.bytes]
        ELSE [status |-> from_channel_status_result(sent.status),
              channels |-> [chs EXCEPT ![resolved.endpoint.sender] = sent.channel],
              message |-> message.bytes]

IdleAbi == [call |-> "none", channel_handle |-> 0, args_ok |-> TRUE,
            status |-> "none", message |-> <<>>, expected |-> <<>>]

\* what nobody sent
Nothing == <<-1>>

Oldest(sent) == IF sent = <<>> THEN Nothing ELSE Head(sent)

Rest(sent) == IF sent = <<>> THEN sent ELSE Tail(sent)

\* the factories of a handler: TestingFactory, and one whose extensions are
\* native (the lookup factory)
Factories == {"Testing", "Native"}

\* endpoint: None
NoEndpoint == [sender |-> -1, receiver |-> -1]

\* ExtensionFactory::create: a Uwabi extension starts without an endpoint.
\* The history fields `message` and `expected` of abi and of an extension are
\* the message it last received and the oldest message its peer had sent and
\* nobody had received; `offered` is the endpoint last passed to set_endpoint
create(factory) ==
    IF factory = "Native" THEN [kind |-> "Native"]
    ELSE [kind |-> "Uwabi", channel_handle |-> factory, endpoint |-> NoEndpoint,
          message |-> <<>>, expected |-> <<>>, offered |-> NoEndpoint]

\* a variant that takes every endpoint it is given
set_endpoint_rebinds(extension, endpoint) ==
    [extension |-> [extension EXCEPT !.endpoint = endpoint, !.offered = endpoint],
     dropped |-> extension.endpoint]

\* TestingExtension::set_endpoint: the endpoint is taken if there is none
\* yet; the endpoint that is not kept is dropped
set_endpoint(extension, endpoint) ==
    IF extension.endpoint = NoEndpoint
    THEN [extension |-> [extension EXCEPT !.endpoint = endpoint, !.offered = endpoint],
          dropped |-> NoEndpoint]
    ELSE [extension |-> [extension EXCEPT !.offered = endpoint], dropped |-> endpoint]

\* the channels once the endpoint set_endpoint did not keep is gone
after_set_endpoint(chs, dropped) ==
    IF dropped = NoEndpoint THEN chs ELSE drop_endpoint(chs, dropped)

\* WasmState before the loop of WasmHandler::init
NoWasmState ==
    [channels |-> [c \in {} |-> channel], channel_switchboard |-> NoEndpoints,
     uwabi_extensions |-> <<>>]

\* a variant that registers the handle and leaves the extension unbound
init_step_unbound(state, factory) ==
    LET extension == create(factory)
    IN  IF extension.kind = "Native" THEN state
        ELSE LET registered == register(state.channels, state.channel_switchboard,
                                        extension.channel_handle)
             IN  [channels |-> drop_endpoint(registered.channels, registered.endpoint),
                  channel_switchboard |-> registered.switchboard,
                  uwabi_extensions |-> Append(state.uwabi_extensions, extension)]

\* one round of the loop of WasmHandler::init: a native extension leaves the
\* channels alone; a Uwabi extension is registered under its channel handle,
\* given the endpoint register returns, and pushed
init_step(state, factory) ==
    LET extension == create(factory)
    IN  IF extension.kind = "Native" THEN state
        ELSE LET registered == register(state.channels, state.channel_switchboard,
                                        extension.channel_handle)
                 bound == set_endpoint(extension, registered.endpoint)
             IN  [channels |-> after_set_endpoint(registered.channels, bound.dropped),
                  channel_switchboard |-> registered.switchboard,
                  uwabi_extensions |-> Append(state.uwabi_extensions, bound.extension)]

\* WasmHandler::init: the loop over the factories, in their order
RECURSIVE init(_)
init(factories) ==
    IF factories = <<>> THEN NoWasmState
    ELSE init_step(init(SubSeq(factories, 1, Len(factories) - 1)),
                   factories[Len(factories)])

\* a handler without factories, before its first request
IdleChannelVars ==
    /\ extension_factories = <<>>
    /\ channels = init(<<>>).channels
    /\ channel_switchboard = init(<<>>).channel_switchboard
    /\ uwabi_extensions = init(<<>>).uwabi_extensions
    /\ memory = [a \in Addresses |-> 0]
    /\ abi = IdleAbi
    /\ flight = [module |-> <<>>, runtime |-> <<>>]

(***************************************************************************)
(* The guest ABI of the wasm crate (oak_functions/wasm/src/lib.rs).        *)
(***************************************************************************)
\* ExtensionHandle: the lookup extension's handle and one more;
\* from_i32 is None for anything else
ExtensionHandles == {"LookupHandle", "TestingHandle"}

ExtensionHandle_from_i32(handle) ==
    CASE handle = 1 -> "LookupHandle"
      [] handle = 2 -> "TestingHandle"
      [] OTHER -> "None"

\* the handles a guest passes to invoke
AbiExtensionHandles == {-1, 1, 2}

\* what an extension's invoke returns: the lookup extension always Ok
ExtensionResults(h) ==
    {[status |-> "Ok", bytes |-> b] : b \in {<<>>, <<7>>}}
       \cup (IF h = "LookupHandle" THEN {}
             ELSE {[status |-> "ErrInternal", bytes |-> <<>>]})

\* what an extension's terminate returns: the lookup extension always Ok
TerminateResults(h) == IF h = "LookupHandle" THEN {"Ok"} ELSE {"Ok", "Err"}

\* the extensions init_wasm_state creates, one per factory, none invoked or
\* terminated yet; `terminate` is what the extension's terminate will return
ExtensionSets ==
    UNION {[hs -> [invoked : {0}, terminated : {FALSE}, terminate : {"Ok", "Err"}]] :
             hs \in SUBSET ExtensionHandles}

NewExtensions ==
    {e \in ExtensionSets : \A h \in DOMAIN e : e[h].terminate \in TerminateResults(h)}

\* a variant that starts with a byte in the response
UserState_init_stale(extensions) == [response_bytes |-> <<65>>, extensions |-> extensions]

\* UserState::init: the empty response
UserState_init(extensions) == [response_bytes |-> <<>>, extensions |-> extensions]

\* UserState::get_extension
get_extension(extensions, handle) ==
    LET h == ExtensionHandle_from_i32(handle)
    IN  IF h = "None" THEN [status |-> "ErrInvalidHandle", handle |-> h]
        ELSE IF h \notin DOMAIN extensions
        THEN [status |-> "ErrInvalidHandle", handle |-> h]
        ELSE [status |-> "Ok", handle |-> h]

\* read_buffer: memory.read fails for a range that leaves the memory
read_buffer(mem, buf_ptr, buf_len) ==
    IF validate_range(buf_ptr, buf_len)
    THEN [status |-> "Ok", bytes |-> [i \in 1..buf_len |-> mem[buf_ptr + i - 1]]]
    ELSE [status |-> "ErrInvalidArgs", bytes |-> <<>>]

\* write_buffer: memory.write fails for a range that leaves the memory
write_buffer(mem, source, dest) ==
    IF validate_range(dest, Len(source))
    THEN [status |-> "Ok",
          memory |-> [a \in Addresses |->
                        IF a >= dest /\ a < dest + Len(source)
                        THEN source[a - dest + 1] ELSE mem[a]]]
    ELSE [status |-> "ErrInvalidArgs", memory |-> mem]

write_u32(mem, value, address) == write_buffer(mem, le_bytes(value), address)

\* alloc_and_write_buffer; dest_ptr is what call_alloc returned
alloc_and_write_buffer(mem, buffer, dest_ptr, dest_ptr_ptr, dest_len_ptr) ==
    LET w1 == write_buffer(mem, buffer, dest_ptr)
        w2 == write_u32(w1.memory, dest_ptr, dest_ptr_ptr)
        w3 == write_u32(w2.memory, Len(buffer), dest_len_ptr)
    IN  IF w1.status # "Ok" THEN w1
        ELSE IF w2.status # "Ok" THEN w2
        ELSE w3

\* a variant that appends to the response
write_response_append(response_bytes, mem, buf_ptr, buf_len) ==
    LET target == read_buffer(mem, buf_ptr, buf_len)
    IN  IF target.status # "Ok"
        THEN [status |-> "ErrInvalidArgs", response_bytes |-> response_bytes]
        ELSE [status |-> "Ok", response_bytes |-> response_bytes \o target.bytes]

\* write_response: the bytes read replace response_bytes
write_response(response_bytes, mem, buf_ptr, buf_len) ==
    LET target == read_buffer(mem, buf_ptr, buf_len)
    IN  IF target.status # "Ok"
        THEN [status |-> "ErrInvalidArgs", response_bytes |-> response_bytes]
        ELSE [status |-> "Ok", response_bytes |-> target.bytes]

\* a variant that looks at the handle before it reads the request
invoke_extension_handle_first(extensions, mem, handle, args, result) ==
    LET request == read_buffer(mem, args.request_ptr, args.request_len)
        extension == get_extension(extensions, handle)
        written == alloc_and_write_buffer(mem, result.bytes, args.dest_ptr,
                                          args.response_ptr_ptr, args.response_len_ptr)
    IN  IF extension.status # "Ok"
        THEN [status |-> extension.status, extensions |-> extensions, memory |-> mem]
        ELSE IF request.status # "Ok"
        THEN [status |-> "ErrInvalidArgs", extensions |-> extensions, memory |-> mem]
        ELSE IF result.status # "Ok"
        THEN [status |-> result.status,
              extensions |-> [extensions EXCEPT ![extension.handle].invoked = @ + 1],
              memory |-> mem]
        ELSE [status |-> written.status,
              extensions |-> [extensions EXCEPT ![extension.handle].invoked = @ + 1],
              memory |-> written.memory]

\* invoke_extension: read the request, resolve the handle, run the
\* extension's invoke (its outcome is `result`), write the response; args
\* are the four pointers, the length, and what call_alloc returns
invoke_extension(extensions, mem, handle, args, result) ==
    LET request == read_buffer(mem, args.request_ptr, args.request_len)
        extension == get_extension(extensions, handle)
        written == alloc_and_write_buffer(mem, result.bytes, args.dest_ptr,
                                          args.response_ptr_ptr, args.response_len_ptr)
    IN  IF request.status # "Ok"
        THEN [status |-> "ErrInvalidArgs", extensions |-> extensions, memory |-> mem]
        ELSE IF extension.status # "Ok"
        THEN [status |-> extension.status, extensions |-> extensions, memory |-> mem]
        ELSE IF result.status # "Ok"
        THEN [status |-> result.status,
              extensions |-> [extensions EXCEPT ![extension.handle].invoked = @ + 1],
              memory |-> mem]
        ELSE [status |-> written.status,
              extensions |-> [extensions EXCEPT ![extension.handle].invoked = @ + 1],
              memory |-> written.memory]

\* `written` and `previous` are history: the bytes of the last write_response
\* that returned Ok, and response_bytes as they were before it
IdleCall == [name |-> "none", handle |-> 0, args_ok |-> TRUE, status |-> "none",
             written |-> <<>>, previous |-> <<>>]

\* `previous` is history: how the request before this one ended
IdleHandler == [pc |-> "idle", main |-> "none", result |-> "none", response |-> <<>>,
                previous |-> [result |-> "none", response |-> <<>>]]

\* the text of the error a failing terminate returns
TerminateError == <<101>>

\* WasmHandler::handle_invoke: the bytes handle_raw_invoke returned become a
\* Success response, its error is passed on
handle_invoke(raw) ==
    IF raw.result = "Ok" THEN Outcome("ok", "Success", raw.response)
    ELSE Outcome("err", "none", TerminateError)

\* no request
IdleWasmVars ==
    /\ user_state = UserState_init([h \in {} |-> 0])
    /\ handler = IdleHandler
    /\ call = IdleCall

(***************************************************************************)
(* The lookup data manager (oak_functions/lookup/src/lib.rs).              *)
(***************************************************************************)
\* two keys and two values: enough to tell a replaced map from a merged one
\* and an overwritten value from a kept one
Keys == {1, 2}
Vals == {"v1", "v2"}

Updaters == {"u1", "u2"}
Readers == {"r1", "r2"}

\* Data::new()
EmptyData == [k \in {} |-> "v1"]

\* the maps updaters install: empty, or the keys 1..n with one value
NewMaps ==
    {EmptyData} \cup {[k \in 1..n |-> v] : n \in Keys, v \in Vals}

\* Option<Vec<u8>>: "absent" is None
get(data, key) == IF key \in DOMAIN data THEN data[key] ELSE "absent"

len(data) == Cardinality(DOMAIN data)

\* a variant that reports a missing key as an error
invoke_miss_is_error(data, key) ==
    IF key \in DOMAIN data
    THEN [status |-> "Ok", value |-> data[key]]
    ELSE [status |-> "ErrStorageItemNotFound", value |-> "absent"]

\* LookupData::invoke: Ok(StorageGetItemResponse { value: self.get(&key) })
invoke(data, key) == [status |-> "Ok", value |-> get(data, key)]

\* DataBuilder::new()
NewBuilder == [data |-> EmptyData, state |-> "Empty"]

\* DataBuilder::extend: keys of new_data overwrite
extend(builder, new_data) ==
    [data |-> [k \in (DOMAIN builder.data) \cup (DOMAIN new_data) |->
                 IF k \in DOMAIN new_data THEN new_data[k] ELSE builder.data[k]],
     state |-> "Updating"]

\* a variant that leaves the data in the builder
build_keep(builder) ==
    [builder |-> [data |-> builder.data, state |-> "Empty"], data |-> builder.data]

\* a variant that does not reset the state
build_stays_updating(builder) ==
    [builder |-> [data |-> EmptyData, state |-> builder.state], data |-> builder.data]

\* DataBuilder::build: core::mem::take leaves an empty map in the builder
build(builder) ==
    [builder |-> [data |-> EmptyData, state |-> "Empty"], data |-> builder.data]

\* a variant that overwrites the shared map in place
install_in_place(heap, current, next_data) ==
    [arcs |-> [heap EXCEPT ![current] = next_data], data |-> current]

\* *data = Arc::new(next_data): a new allocation, the old one is untouched
install(heap, current, next_data) ==
    [arcs |-> Append(heap, next_data), data |-> Len(heap) + 1]

\* a variant in which the guard is forgotten and the lock stays held
drop_guard_leaks(holder) == holder

\* a guard goes out of scope: its lock is free again
drop_guard(holder) == "free"

IdleUpdater == [pc |-> "idle", new_data |-> EmptyData, next_data |-> EmptyData,
                status |-> "none"]

\* history fields of a reader, set when its LookupData is created: the
\* contents of the manager's current Arc (at_creation), the number of updates
\* completed (epoch) and the map of the latest of them (expected)
IdleReader == [pc |-> "idle", data |-> 0, key |-> 0, value |-> "none",
               status |-> "none",
               at_creation |-> EmptyData, epoch |-> 0, expected |-> EmptyData]

\* LookupDataManager::new_empty
InitLookupVars ==
    /\ arcs = <<EmptyData>>
    /\ mgr = [data |-> 1, data_lock |-> "free",
              data_builder |-> NewBuilder, builder_lock |-> "free"]
    /\ upd = [u \in Updaters |-> IdleUpdater]
    /\ rd = [r \in Readers |-> IdleReader]
    /\ hist = [count |-> 0, installed |-> EmptyData]

\* update_data: self.data_builder.lock()
UpdLockBuilder(u) ==
    /\ upd[u].pc = "idle"
    /\ hist.count + Cardinality({v \in Updaters : upd[v].pc # "idle"}) < MaxUpdates
    /\ mgr.builder_lock = "free"
    /\ \E m \in NewMaps :
          upd' = [upd EXCEPT ![u] = [pc |-> "locked", new_data |-> m,
                                     next_data |-> EmptyData, status |-> "none"]]
    /\ mgr' = [mgr EXCEPT !.builder_lock = u]
    /\ UNCHANGED <<loaderVars, helperVars, shaperVars, padder, channelVars, wasmVars, arcs, rd, hist>>

\* update_data: the match on the builder's state. (Empty, StartAndFinish)
\* extends and builds; (Updating, StartAndFinish) clears the builder, drops
\* the guard and returns Aborted
UpdMatch(u) ==
    /\ upd[u].pc = "locked"
    /\ IF mgr.data_builder.state = "Empty"
       THEN LET built == build(extend(mgr.data_builder, upd[u].new_data))
            IN  /\ mgr' = [mgr EXCEPT !.data_builder = built.builder]
                /\ upd' = [upd EXCEPT ![u].pc = "built",
                                      ![u].next_data = built.data]
       ELSE /\ mgr' = [mgr EXCEPT !.data_builder = build(mgr.data_builder).builder,
                                  !.builder_lock = "free"]
            /\ upd' = [upd EXCEPT ![u].pc = "idle", ![u].status = "Aborted"]
    /\ UNCHANGED <<loaderVars, helperVars, shaperVars, padder, channelVars, wasmVars, arcs, rd, hist>>

\* update_data: self.data.lock()
UpdLockData(u) ==
    /\ upd[u].pc = "built"
    /\ mgr.data_lock = "free"
    /\ mgr' = [mgr EXCEPT !.data_lock = u]
    /\ upd' = [upd EXCEPT ![u].pc = "storing"]
    /\ UNCHANGED <<loaderVars, helperVars, shaperVars, padder, channelVars, wasmVars, arcs, rd, hist>>

\* update_data: the store, then both guards are dropped and Finished returned
UpdStore(u) ==
    /\ upd[u].pc = "storing"
    /\ LET stored == install(arcs, mgr.data, upd[u].next_data)
       IN  /\ arcs' = stored.arcs
           /\ mgr' = [mgr EXCEPT !.data = stored.data,
                                 !.data_lock = drop_guard(u),
                                 !.builder_lock = drop_guard(u)]
    /\ upd' = [upd EXCEPT ![u].pc = "idle", ![u].status = "Finished"]
    /\ hist' = [count |-> hist.count + 1, installed |-> upd[u].new_data]
    /\ UNCHANGED <<loaderVars, helperVars, shaperVars, padder, channelVars, wasmVars, rd>>

\* init_wasm_state -> LookupFactory::create -> create_lookup_data: data.lock()
CreateLock(r) ==
    /\ rd[r].pc = "idle"
    /\ mgr.data_lock = "free"
    /\ mgr' = [mgr EXCEPT !.data_lock = r]
    /\ rd' = [rd EXCEPT ![r].pc = "cloning"]
    /\ UNCHANGED <<loaderVars, helperVars, shaperVars, padder, channelVars, wasmVars, arcs, upd, hist>>

\* create_lookup_data: clone the Arc, drop the guard
CreateClone(r) ==
    /\ rd[r].pc = "cloning"
    /\ mgr' = [mgr EXCEPT !.data_lock = drop_guard(r)]
    /\ rd' = [rd EXCEPT ![r].pc = "ready", ![r].data = mgr.data,
                        ![r].at_creation = arcs[mgr.data],
                        ![r].epoch = hist.count,
                        ![r].expected = hist.installed]
    /\ UNCHANGED <<loaderVars, helperVars, shaperVars, padder, channelVars, wasmVars, arcs, upd, hist>>

\* the guest calls the lookup extension: LookupData::invoke, which reads
\* through LookupData::get
Get(r) ==
    /\ rd[r].pc = "ready"
    /\ \E key \in Keys :
          LET result == invoke(arcs[rd[r].data], key)
          IN  rd' = [rd EXCEPT ![r].key = key, ![r].value = result.value,
                               ![r].status = result.status]
    /\ UNCHANGED <<loaderVars, helperVars, shaperVars, padder, channelVars, wasmVars, arcs, mgr, upd, hist>>

\* the request ends and its LookupData is dropped
Drop(r) ==
    /\ rd[r].pc = "ready"
    /\ rd' = [rd EXCEPT ![r] = [IdleReader EXCEPT !.pc = "done"]]
    /\ UNCHANGED <<loaderVars, helperVars, shaperVars, padder, channelVars, wasmVars, arcs, mgr, upd, hist>>

InitLookup ==
    /\ IdleLoaderVars
    /\ IdleHelperVars
    /\ config = [constant_response_size_bytes |-> MIN_RESPONSE_SIZE,
                 constant_processing_time |-> [secs |-> 0, nanos |-> 0]]
    /\ startup = "init"
    /\ server = NoServerPolicy
    /\ req = [r \in Requests |-> IdleRequest]
    /\ padder = IdlePadder
    /\ InitLookupVars
    /\ IdleChannelVars
    /\ IdleWasmVars

NextLookup ==
    \/ \E u \in Updaters : UpdLockBuilder(u)
    \/ \E u \in Updaters : UpdMatch(u)
    \/ \E u \in Updaters : UpdLockData(u)
    \/ \E u \in Updaters : UpdStore(u)
    \/ \E r \in Readers : CreateLock(r)
    \/ \E r \in Readers : CreateClone(r)
    \/ \E r \in Readers : Get(r)
    \/ \E r \in Readers : Drop(r)

SpecLookup == InitLookup /\ [][NextLookup]_vars

\* a call that has begun keeps running: a thread inside update_data or
\* create_lookup_data executes its next statement, and one spinning on a
\* Spinlock takes it once it stays free. Whether a call begins, and whether a
\* request looks up or ends, is left open.
FairLookup ==
    /\ \A u \in Updaters : WF_vars(UpdMatch(u))
    /\ \A u \in Updaters : WF_vars(UpdLockData(u))
    /\ \A u \in Updaters : WF_vars(UpdStore(u))
    /\ \A r \in Readers : WF_vars(CreateClone(r))

\* the calls that take locks: updates, and requests that create their
\* LookupData and end without looking anything up
NextLocks ==
    \/ \E u \in Updaters : UpdLockBuilder(u)
    \/ \E u \in Updaters : UpdMatch(u)
    \/ \E u \in Updaters : UpdLockData(u)
    \/ \E u \in Updaters : UpdStore(u)
    \/ \E r \in Readers : CreateLock(r)
    \/ \E r \in Readers : CreateClone(r)
    \/ \E r \in Readers : Drop(r)

SpecLookupFair == InitLookup /\ [][NextLocks]_vars /\ FairLookup

(***************************************************************************)
(* The start of the loader (oak_functions/loader/src/lib.rs) and of the    *)
(* launcher (oak_functions_launcher/src/lib.rs): the initial load of the   *)
(* lookup data and the task that refreshes it.                             *)
(***************************************************************************)
Programs == {"loader", "launcher"}

\* lookup_data_download_period, update_interval: None is 0
Periods == 1..MaxElapsed

\* the thread that refreshes, and a request of the server
Refresher == "u1"
Client == "r1"

\* tokio::time::interval_at(start, period): the first tick completes at start
interval_at(start, period) == [deadline |-> start, period |-> period]

\* tokio::time::interval(period): the first tick completes immediately
interval(now, period) == interval_at(now, period)

\* Interval::tick has completed: the next one is due a period later
tick(timer) == [timer EXCEPT !.deadline = @ + timer.period]

\* the interval of a refresh task started at now: the loader's
\* background_refresh_lookup_data and the launcher's setup_periodic_update
refresh_interval(program, now, period) ==
    IF program = "loader" THEN interval_at(now + period, period)
    ELSE interval(now, period)

\* a variant that goes on when the initial load has failed
initial_load_unchecked(fetched) == IF fetched THEN "updating" ELSE "loaded"

\* the `?` after the initial refresh().await, resp. update_lookup_data().await
initial_load(fetched) == IF fetched THEN "updating" ELSE "aborted"

\* a variant in which an error ends the loop
skip_refresh_stops(task) == "stopped"

\* `if let Err(err) = refresh().await { log }`, resp. `let _ =
\* update_lookup_data().await`: the loop goes on to the next tick
skip_refresh(task) == "waiting"

\* the refresh that load_lookup_data, resp. setup_lookup_data, awaits: the
\* source is read; a source that cannot be read is an error before the
\* manager is touched
InitialFetch ==
    /\ boot.pc = "load"
    /\ boot.source
    /\ \E fetched \in BOOLEAN : boot' = [boot EXCEPT !.pc = initial_load(fetched)]
    /\ UNCHANGED <<shaperVars, padder, lookupVars, channelVars, wasmVars, helperVars>>

\* load_lookup_data without a source returns the empty manager
NoLookupSource ==
    /\ boot.pc = "load"
    /\ ~boot.source
    /\ boot' = [boot EXCEPT !.pc = "loaded"]
    /\ UNCHANGED <<shaperVars, padder, lookupVars, channelVars, wasmVars, helperVars>>

\* the refresh calls update_data with what it has read
RefreshUpdate ==
    /\ boot.pc = "updating" \/ boot.task = "updating"
    /\ upd[Refresher].status = "none"
    /\ UpdLockBuilder(Refresher)

\* the initial refresh has returned Ok: the refresh task is spawned if a
\* period is given, and the manager is returned
Loaded ==
    /\ boot.pc = "updating"
    /\ upd[Refresher].pc = "idle" /\ upd[Refresher].status # "none"
    /\ boot' = [boot EXCEPT !.pc = "loaded", !.loaded_at = boot.now,
                            !.task = IF boot.period # 0 THEN "spawned" ELSE "none"]
    /\ upd' = [upd EXCEPT ![Refresher].status = "none"]
    /\ UNCHANGED <<shaperVars, padder, channelVars, wasmVars, helperVars,
                   arcs, mgr, rd, hist>>

\* the rest of async_main, resp. of create: the manager goes to the
\* LookupFactory, the handler is made and the server started
StartServing ==
    /\ boot.pc = "loaded"
    /\ boot' = [boot EXCEPT !.pc = "serving"]
    /\ UNCHANGED <<shaperVars, padder, lookupVars, channelVars, wasmVars, helperVars>>

\* the spawned task runs up to its first tick().await
TaskStart ==
    /\ boot.task = "spawned"
    /\ boot' = [boot EXCEPT !.task = "waiting",
                            !.interval = refresh_interval(boot.program, boot.now,
                                                          boot.period)]
    /\ UNCHANGED <<shaperVars, padder, lookupVars, channelVars, wasmVars, helperVars>>

\* interval.tick().await completes and the refresh is called
IntervalTick ==
    /\ boot.task = "waiting"
    /\ boot.now >= boot.interval.deadline
    /\ boot' = [boot EXCEPT !.task = "ticked", !.interval = tick(boot.interval)]
    /\ UNCHANGED <<shaperVars, padder, lookupVars, channelVars, wasmVars, helperVars>>

\* the refresh of the task reads the source
RefreshFetch ==
    /\ boot.task = "ticked"
    /\ \E fetched \in BOOLEAN :
          boot' = IF fetched THEN [boot EXCEPT !.task = "updating"]
                  ELSE [boot EXCEPT !.task = skip_refresh(boot.task),
                                    !.log = Append(@, "failed")]
    /\ UNCHANGED <<shaperVars, padder, lookupVars, channelVars, wasmVars, helperVars>>

\* the refresh of the task has returned Ok
Refreshed ==
    /\ boot.task = "updating"
    /\ upd[Refresher].pc = "idle" /\ upd[Refresher].status # "none"
    /\ boot' = [boot EXCEPT !.task = "waiting", !.log = Append(@, upd[Refresher].status)]
    /\ upd' = [upd EXCEPT ![Refresher].status = "none"]
    /\ UNCHANGED <<shaperVars, padder, channelVars, wasmVars, helperVars,
                   arcs, mgr, rd, hist>>

\* time passes
Elapse ==
    /\ boot.now < MaxElapsed
    /\ boot' = [boot EXCEPT !.now = @ + 1]
    /\ UNCHANGED <<shaperVars, padder, lookupVars, channelVars, wasmVars, helperVars>>

\* the server is up and takes requests
ServerUp == boot.pc = "serving"

\* new_empty, and the configuration: the loader with or without a source,
\* the launcher with its lookup_data_path, each with or without a period
InitLoader ==
    /\ config = [constant_response_size_bytes |-> MIN_RESPONSE_SIZE,
                 constant_processing_time |-> [secs |-> 0, nanos |-> 0]]
    /\ startup = "init"
    /\ server = NoServerPolicy
    /\ req = [r \in Requests |-> IdleRequest]
    /\ padder = IdlePadder
    /\ InitLookupVars
    /\ IdleChannelVars
    /\ IdleWasmVars
    /\ IdleHelperVars
    /\ \E program \in Programs, source \in BOOLEAN, period \in {0} \cup Periods :
          /\ program = "launcher" => source
          /\ boot = [IdleBoot EXCEPT !.program = program, !.source = source,
                                     !.period = period, !.pc = "load"]

NextLoader ==
    \/ InitialFetch
    \/ NoLookupSource
    \/ RefreshUpdate
    \/ UpdMatch(Refresher)
    \/ UpdLockData(Refresher)
    \/ UpdStore(Refresher)
    \/ Loaded
    \/ StartServing
    \/ TaskStart
    \/ IntervalTick
    \/ RefreshFetch
    \/ Refreshed
    \/ Elapse
    \/ ServerUp /\ CreateLock(Client)
    \/ CreateClone(Client)
    \/ Get(Client)
    \/ Drop(Client)

SpecLoader == InitLoader /\ [][NextLoader]_vars

(***************************************************************************)
(* The shaper's actions.                                                   *)
(***************************************************************************)
\* async_main: the policy is validated before any request is served
Startup ==
    /\ startup = "init"
    /\ server' = checked_policy(config)
    /\ startup' = IF server'.valid THEN "serving" ELSE "failed"
    /\ UNCHANGED <<loaderVars, helperVars, config, req, padder, lookupVars, channelVars, wasmVars>>

\* apply_policy up to its await: spawn the task, start the sleep
Accept(r) ==
    /\ startup = "serving"
    /\ req[r].pc = "idle"
    /\ req' = [req EXCEPT ![r].pc = "sleeping",
                          ![r].task = [state |-> "running", outcome |-> NoOutcome,
                                       late |-> FALSE, early |-> FALSE]]
    /\ UNCHANGED <<loaderVars, helperVars, config, startup, server, padder, lookupVars, channelVars, wasmVars>>

\* the spawned task runs the function to its end, at any time, also after
\* apply_policy has returned
TaskComplete(r) ==
    /\ req[r].task.state = "running"
    /\ \E o \in FunctionOutcomes(server.constant_response_size_bytes) :
          req' = [req EXCEPT ![r].task = [state |-> "done", outcome |-> o,
                                          late |-> req[r].pc = "returned",
                                          early |-> req[r].waited
                                                      < server.constant_processing_time_ms]]
    /\ UNCHANGED <<loaderVars, helperVars, config, startup, server, padder, lookupVars, channelVars, wasmVars>>

\* one millisecond passes for every request whose sleep is pending
Tick ==
    /\ \E r \in Requests : req[r].pc = "sleeping" /\ req[r].waited < MaxClock
    /\ req' = [r \in Requests |->
                 IF req[r].pc = "sleeping" /\ req[r].waited < MaxClock
                 THEN [req[r] EXCEPT !.waited = @ + 1]
                 ELSE req[r]]
    /\ UNCHANGED <<loaderVars, helperVars, config, startup, server, padder, lookupVars, channelVars, wasmVars>>

\* a variant that also returns as soon as the task has finished
sleep_resolved_early(rq, policy) ==
    \/ rq.waited >= policy.constant_processing_time_ms
    \/ rq.task.state = "done"

\* tokio::time::sleep(constant_processing_time_ms).await resolves once the
\* duration has elapsed, whatever the task does
sleep_resolved(rq, policy) ==
    rq.waited >= policy.constant_processing_time_ms

\* apply_policy from the end of the sleep to its return: there is no await
\* between the sleep and the return, so the poll in which the sleep resolves
\* also samples the task, shapes the response and returns it
TimerFire(r) ==
    /\ req[r].pc = "sleeping"
    /\ sleep_resolved(req[r], server)
    /\ LET function_response == now_or_never(req[r].task)
       IN  req' = [req EXCEPT ![r].pc = "returned",
                              ![r].task = JoinHandle_drop(req[r].task),
                              ![r].sampled = function_response,
                              ![r].response = shape(server, function_response)]
    /\ UNCHANGED <<loaderVars, helperVars, config, startup, server, padder, lookupVars, channelVars, wasmVars>>

InitShaper ==
    /\ IdleLoaderVars
    /\ IdleHelperVars
    /\ config \in ShaperConfigs \cup {NoPolicy}
    /\ startup = "init"
    /\ server = NoServerPolicy
    /\ req = [r \in Requests |-> IdleRequest]
    /\ padder = IdlePadder
    /\ InitLookupVars
    /\ IdleChannelVars
    /\ IdleWasmVars

NextShaper ==
    \/ Startup
    \/ \E r \in Requests : Accept(r)
    \/ \E r \in Requests : TaskComplete(r)
    \/ Tick
    \/ \E r \in Requests : TimerFire(r)

SpecShaper == InitShaper /\ [][NextShaper]_vars

\* startup alone, over more configurations
InitValidate ==
    /\ IdleLoaderVars
    /\ IdleHelperVars
    /\ config \in Configs
    /\ startup = "init"
    /\ server = NoServerPolicy
    /\ req = [r \in Requests |-> IdleRequest]
    /\ padder = IdlePadder
    /\ InitLookupVars
    /\ IdleChannelVars
    /\ IdleWasmVars

NextValidate == Startup

SpecValidate == InitValidate /\ [][NextValidate]_vars

(***************************************************************************)
(* A caller of pad: pads a response, then pads the result again.           *)
(***************************************************************************)
PadSizes == {1} \cup Sizes

PadInputs(n) ==
    {[status |-> st, body |-> b, length |-> l] :
        st \in StatusCodes, b \in Bodies(n), l \in {0, n + 1}}

PadOnce ==
    /\ padder.pc = "input"
    /\ padder' = [padder EXCEPT !.pc = "once",
                                !.once = pad(padder.r, padder.body_size)]
    /\ UNCHANGED <<loaderVars, helperVars, shaperVars, lookupVars, channelVars, wasmVars>>

\* the padded response is a Response again: status, body and length
PadTwice ==
    /\ padder.pc = "once"
    /\ padder.once.ok
    /\ padder' = [padder EXCEPT !.pc = "twice",
                                !.twice = pad([status |-> padder.once.status,
                                               body |-> padder.once.body,
                                               length |-> padder.once.length],
                                              padder.body_size)]
    /\ UNCHANGED <<loaderVars, helperVars, shaperVars, lookupVars, channelVars, wasmVars>>

InitPad ==
    /\ IdleLoaderVars
    /\ IdleHelperVars
    /\ config = [constant_response_size_bytes |-> MIN_RESPONSE_SIZE,
                 constant_processing_time |-> [secs |-> 0, nanos |-> 0]]
    /\ startup = "init"
    /\ server = NoServerPolicy
    /\ req = [r \in Requests |-> IdleRequest]
    /\ \E n \in PadSizes : \E r \in PadInputs(n) :
          padder = [IdlePadder EXCEPT !.pc = "input", !.r = r, !.body_size = n]
    /\ InitLookupVars
    /\ IdleChannelVars
    /\ IdleWasmVars

NextPad == PadOnce \/ PadTwice

SpecPad == InitPad /\ [][NextPad]_vars

(***************************************************************************)
(* One request's channels: the guest calls channel_read and channel_write, *)
(* the Uwabi extension uses the endpoint it was given.                     *)
(***************************************************************************)
\* the pointers the guest passes: the ones of its layout, and ones whose
\* range ends past the memory
DestPtrs == {GuestLayout.dest_ptr, MemorySize}
DestPtrPtrs == {GuestLayout.dest_ptr_ptr, MemorySize - 3}
DestLenPtrs == {GuestLayout.dest_len_ptr, MemorySize - 3}
SrcBufLens == {Len(m) : m \in GuestMessages} \cup {MemorySize + 1}

\* the guest calls channel_read
ChannelReadAt(dest_ptrs, dest_ptr_ptrs, dest_len_ptrs) ==
    \E channel_handle \in AbiChannelHandles, dest_ptr \in dest_ptrs,
       dest_ptr_ptr \in dest_ptr_ptrs, dest_len_ptr \in dest_len_ptrs :
       LET result == channel_read(channels, channel_switchboard, memory,
                                  channel_handle, dest_ptr, dest_ptr_ptr, dest_len_ptr)
       IN  /\ channels' = result.channels
           /\ memory' = result.memory
           /\ abi' = [call |-> "channel_read", channel_handle |-> channel_handle,
                      args_ok |-> /\ dest_ptr = GuestLayout.dest_ptr
                                  /\ dest_ptr_ptr = GuestLayout.dest_ptr_ptr
                                  /\ dest_len_ptr = GuestLayout.dest_len_ptr,
                      status |-> result.status, message |-> result.message,
                      expected |-> IF result.received THEN Oldest(flight.runtime)
                                   ELSE <<>>]
           /\ flight' = IF result.received
                        THEN [flight EXCEPT !.runtime = Rest(@)]
                        ELSE flight
           /\ UNCHANGED <<loaderVars, helperVars, shaperVars, padder, lookupVars, wasmVars, extension_factories,
                          channel_switchboard,
                          uwabi_extensions>>

\* the guest calls channel_write on its source buffer, with one of the
\* lengths
ChannelRead == ChannelReadAt(DestPtrs, DestPtrPtrs, DestLenPtrs)

ChannelWriteOf(lengths) ==
    \E channel_handle \in AbiChannelHandles, src_buf_len \in lengths :
       LET result == channel_write(channels, channel_switchboard, memory,
                                   channel_handle, GuestLayout.src_buf_ptr, src_buf_len)
       IN  /\ channels' = result.channels
           /\ abi' = [call |-> "channel_write", channel_handle |-> channel_handle,
                      args_ok |-> validate_range(GuestLayout.src_buf_ptr, src_buf_len),
                      status |-> result.status, message |-> result.message,
                      expected |-> <<>>]
           /\ flight' = IF result.status = "ChannelOk"
                        THEN [flight EXCEPT !.module = Append(@, result.message)]
                        ELSE flight
           /\ UNCHANGED <<loaderVars, helperVars, shaperVars, padder, lookupVars, wasmVars, extension_factories,
                          channel_switchboard,
                          uwabi_extensions, memory>>

\* the guest writes the message of its source buffer, or names a length that
\* leaves its memory
ChannelWrite == ChannelWriteOf(SrcBufLens)

\* the same call, made while few messages wait for the extension
ChannelWriteFew ==
    /\ Len(flight.module) < MaxModulePending
    /\ ChannelWrite

\* an extension sends on its endpoint (endpoint.sender.send(message).await,
\* which waits while the queue is full), while fewer than pending messages
\* wait for the guest
RuntimeSendUpTo(i, pending) ==
    /\ i \in DOMAIN uwabi_extensions
    /\ LET endpoint == uwabi_extensions[i].endpoint
       IN  /\ Len(channels[endpoint.sender].queue) < pending
           /\ \E message \in RuntimeMessages :
                 LET sent == try_send(channels[endpoint.sender], message)
                 IN  /\ sent.status = "Ok"
                     /\ channels' = [channels EXCEPT ![endpoint.sender] = sent.channel]
                     /\ flight' = [flight EXCEPT !.runtime = Append(@, message)]
    /\ UNCHANGED <<loaderVars, helperVars, shaperVars, padder, lookupVars, wasmVars, extension_factories,
                   channel_switchboard, uwabi_extensions, memory, abi>>

RuntimeSend(i) == RuntimeSendUpTo(i, MaxRuntimePending)

\* Endpoint::handle_message: receiver.recv().await takes the oldest message
handle_message(i) ==
    /\ i \in DOMAIN uwabi_extensions
    /\ LET endpoint == uwabi_extensions[i].endpoint
           received == try_recv(channels[endpoint.receiver])
       IN  /\ received.status = "Ok"
           /\ channels' = [channels EXCEPT ![endpoint.receiver] = received.channel]
           /\ uwabi_extensions' =
                 [uwabi_extensions EXCEPT ![i].message = received.message,
                                          ![i].expected = Oldest(flight.module)]
           /\ flight' = [flight EXCEPT !.module = Rest(@)]
    /\ UNCHANGED <<loaderVars, helperVars, shaperVars, padder, lookupVars, wasmVars, extension_factories,
                   channel_switchboard, memory, abi>>

\* Endpoint::close: self.receiver.close()
close(i) ==
    /\ i \in DOMAIN uwabi_extensions
    /\ LET endpoint == uwabi_extensions[i].endpoint
       IN  /\ channels[endpoint.receiver].receiver = "open"
           /\ channels' = [channels EXCEPT ![endpoint.receiver].receiver = "closed"]
    /\ UNCHANGED <<loaderVars, helperVars, shaperVars, padder, lookupVars, wasmVars, extension_factories,
                   channel_switchboard, uwabi_extensions, memory, abi, flight>>

\* the channels once the endpoints of the extensions dropped are gone
RECURSIVE drop_endpoints(_, _)
drop_endpoints(chs, extensions) ==
    IF extensions = <<>> THEN chs
    ELSE drop_endpoints(drop_endpoint(chs, Head(extensions).endpoint), Tail(extensions))

\* uwabi_extensions.retain(|e| e.get_channel_handle() != channel_handle):
\* every extension of the handle is dropped, and its Endpoint with it
drop_extension(h) ==
    /\ \E i \in DOMAIN uwabi_extensions : uwabi_extensions[i].channel_handle = h
    /\ LET retained == SelectSeq(uwabi_extensions, LAMBDA e : e.channel_handle # h)
           dropped == SelectSeq(uwabi_extensions, LAMBDA e : e.channel_handle = h)
       IN  /\ channels' = drop_endpoints(channels, dropped)
           /\ uwabi_extensions' = retained
    /\ flight' = [flight EXCEPT !.module = <<>>]
    /\ UNCHANGED <<loaderVars, helperVars, shaperVars, padder, lookupVars, wasmVars, extension_factories,
                   channel_switchboard, memory, abi>>

\* the guest's memory with message m in its source buffer
GuestMemory(m) ==
    [a \in Addresses |->
       IF a >= GuestLayout.src_buf_ptr /\ a < GuestLayout.src_buf_ptr + Len(m)
       THEN m[a - GuestLayout.src_buf_ptr + 1] ELSE 0]

\* WasmHandler::init, for a handler with or without the Testing extension
InitChannel ==
    /\ IdleLoaderVars
    /\ IdleHelperVars
    /\ config = [constant_response_size_bytes |-> MIN_RESPONSE_SIZE,
                 constant_processing_time |-> [secs |-> 0, nanos |-> 0]]
    /\ startup = "init"
    /\ server = NoServerPolicy
    /\ req = [r \in Requests |-> IdleRequest]
    /\ padder = IdlePadder
    /\ InitLookupVars
    /\ extension_factories \in {<<>>, <<"Testing">>}
    /\ channels = init(extension_factories).channels
    /\ channel_switchboard = init(extension_factories).channel_switchboard
    /\ uwabi_extensions = init(extension_factories).uwabi_extensions
    /\ \E m \in GuestMessages : memory = GuestMemory(m)
    /\ abi = IdleAbi
    /\ flight = [module |-> <<>>, runtime |-> <<>>]
    /\ IdleWasmVars

NextChannel ==
    \/ ChannelRead
    \/ ChannelWriteFew
    \/ \E i \in DOMAIN uwabi_extensions : RuntimeSend(i)
    \/ \E i \in DOMAIN uwabi_extensions : handle_message(i)
    \/ \E i \in DOMAIN uwabi_extensions : close(i)
    \/ \E h \in ChannelHandles : drop_extension(h)

SpecChannel == InitChannel /\ [][NextChannel]_vars

\* the same request with a guest that only writes, as often as it likes, and
\* an extension that sends and receives
NextCapacity ==
    \/ ChannelWrite
    \/ \E i \in DOMAIN uwabi_extensions : RuntimeSend(i)
    \/ \E i \in DOMAIN uwabi_extensions : handle_message(i)

SpecCapacity == InitChannel /\ [][NextCapacity]_vars

\* the lengths of the messages a guest takes from the front of its source
\* buffer
SrcPrefixLens == UNION {1..Len(m) : m \in GuestMessages}

\* the guest writes one of these while fewer than MaxPending messages wait
\* for the extension
ChannelWriteSeveral ==
    /\ Len(flight.module) < MaxPending
    /\ ChannelWriteOf(SrcPrefixLens)

\* the guest reads into the buffers of its layout
ChannelReadInLayout ==
    ChannelReadAt({GuestLayout.dest_ptr}, {GuestLayout.dest_ptr_ptr},
                  {GuestLayout.dest_len_ptr})

\* the same request with several messages waiting in each direction
NextOrder ==
    \/ ChannelReadInLayout
    \/ ChannelWriteSeveral
    \/ \E i \in DOMAIN uwabi_extensions : RuntimeSendUpTo(i, MaxPending)
    \/ \E i \in DOMAIN uwabi_extensions : handle_message(i)

SpecOrder == InitChannel /\ [][NextOrder]_vars

\* the same request with a guest that only reads and an extension that sends
\* several messages and is dropped
NextDrain ==
    \/ ChannelRead
    \/ \E i \in DOMAIN uwabi_extensions : RuntimeSendUpTo(i, MaxPending)
    \/ \E h \in ChannelHandles : drop_extension(h)

SpecDrain == InitChannel /\ [][NextDrain]_vars

\* the same request with a guest that reads and writes as often as it likes
\* and an extension that receives and closes
NextWrites ==
    \/ ChannelRead
    \/ ChannelWrite
    \/ \E i \in DOMAIN uwabi_extensions : handle_message(i)
    \/ \E i \in DOMAIN uwabi_extensions : close(i)

SpecWrites == InitChannel /\ [][NextWrites]_vars

\* the handlers whose wiring is looked at: up to MaxFactories factories, also
\* more than one TestingFactory
FactoryLists == SeqsUpTo(Factories, MaxFactories)

\* the Uwabi extensions init creates
Uwabi(factories) == SelectSeq(factories, LAMBDA f : create(f).kind = "Uwabi")

\* a caller offers an extension that init has bound the endpoint of a new
\* pair, whose other endpoint it drops
SetEndpoint(i) ==
    /\ i \in DOMAIN uwabi_extensions
    /\ Cardinality(DOMAIN channels) \div 2 < Len(Uwabi(extension_factories)) + MaxOffers
    /\ LET base == Cardinality(DOMAIN channels)
           pair == channel_create
           created == [c \in 0..(base + 1) |-> IF c < base THEN channels[c] ELSE channel]
           offered == set_endpoint(uwabi_extensions[i], at(pair.endpoint0, base))
       IN  /\ uwabi_extensions' = [uwabi_extensions EXCEPT ![i] = offered.extension]
           /\ channels' = after_set_endpoint(
                             drop_endpoint(created, at(pair.endpoint1, base)),
                             offered.dropped)
    /\ UNCHANGED <<loaderVars, helperVars, shaperVars, padder, lookupVars, wasmVars, extension_factories,
                   channel_switchboard, memory, abi, flight>>

\* WasmHandler::init for each of these handlers
InitWiring ==
    /\ IdleLoaderVars
    /\ IdleHelperVars
    /\ config = [constant_response_size_bytes |-> MIN_RESPONSE_SIZE,
                 constant_processing_time |-> [secs |-> 0, nanos |-> 0]]
    /\ startup = "init"
    /\ server = NoServerPolicy
    /\ req = [r \in Requests |-> IdleRequest]
    /\ padder = IdlePadder
    /\ InitLookupVars
    /\ extension_factories \in FactoryLists
    /\ channels = init(extension_factories).channels
    /\ channel_switchboard = init(extension_factories).channel_switchboard
    /\ uwabi_extensions = init(extension_factories).uwabi_extensions
    /\ \E m \in GuestMessages : memory = GuestMemory(m)
    /\ abi = IdleAbi
    /\ flight = [module |-> <<>>, runtime |-> <<>>]
    /\ IdleWasmVars

\* a guest that writes, the extensions, and the caller of set_endpoint
NextWiring ==
    \/ ChannelWriteFew
    \/ \E i \in DOMAIN uwabi_extensions : RuntimeSend(i)
    \/ \E i \in DOMAIN uwabi_extensions : handle_message(i)
    \/ \E i \in DOMAIN uwabi_extensions : close(i)
    \/ \E h \in ChannelHandles : drop_extension(h)
    \/ \E i \in DOMAIN uwabi_extensions : SetEndpoint(i)

SpecWiring == InitWiring /\ [][NextWiring]_vars

(***************************************************************************)
(* One request in the wasm crate: handle_raw_invoke runs main, in which    *)
(* the guest calls write_response and invoke, then terminates the          *)
(* extensions and returns the response bytes.                              *)
(***************************************************************************)
\* "ABB" in the guest's source buffer
ResponseSource == <<65, 66, 66>>

\* the ranges the guest passes to write_response: nothing, "A", "BB", and
\* one that leaves the memory
ResponseRanges ==
    {[ptr |-> GuestLayout.src_buf_ptr, len |-> 0],
     [ptr |-> GuestLayout.src_buf_ptr, len |-> 1],
     [ptr |-> GuestLayout.src_buf_ptr + 1, len |-> 2],
     [ptr |-> MemorySize, len |-> 1]}

\* the ranges the guest passes to invoke as the request
RequestRanges ==
    {[ptr |-> GuestLayout.src_buf_ptr, len |-> 1], [ptr |-> MemorySize, len |-> 1]}

\* where the response of invoke goes: what alloc returns and the two cells,
\* all inside the memory or one of them leaving it
ResponseDests ==
    {d \in [dest_ptr : DestPtrs, ptr_ptr : DestPtrPtrs, len_ptr : DestLenPtrs] :
        Cardinality({f \in {"dest_ptr", "ptr_ptr", "len_ptr"} :
                        d[f] \notin {GuestLayout.dest_ptr, GuestLayout.dest_ptr_ptr,
                                     GuestLayout.dest_len_ptr}}) <= 1}

\* the guest calls write_response
WriteResponse ==
    /\ handler.pc = "main"
    /\ \E range \in ResponseRanges :
          LET result == write_response(user_state.response_bytes, memory,
                                       range.ptr, range.len)
              readable == validate_range(range.ptr, range.len)
          IN  /\ user_state' = [user_state EXCEPT !.response_bytes = result.response_bytes]
              /\ call' = [name |-> "write_response", handle |-> 0,
                          args_ok |-> readable, status |-> result.status,
                          written |-> IF readable
                                      THEN [i \in 1..range.len |-> memory[range.ptr + i - 1]]
                                      ELSE call.written,
                          previous |-> IF readable THEN call.written ELSE call.previous]
    /\ UNCHANGED <<loaderVars, helperVars, shaperVars, padder, lookupVars, extension_factories, channels,
                   channel_switchboard,
                   uwabi_extensions, memory, abi, flight, handler>>

\* the guest calls invoke
InvokeExtension ==
    /\ handler.pc = "main"
    /\ \E handle \in AbiExtensionHandles, request \in RequestRanges, dest \in ResponseDests :
          LET h == ExtensionHandle_from_i32(handle)
              created == h \in DOMAIN user_state.extensions
          IN  /\ created => user_state.extensions[h].invoked < MaxInvokes
              /\ \E result \in (IF created THEN ExtensionResults(h)
                                ELSE {[status |-> "Ok", bytes |-> <<>>]}) :
                    LET args == [request_ptr |-> request.ptr, request_len |-> request.len,
                                 dest_ptr |-> dest.dest_ptr,
                                 response_ptr_ptr |-> dest.ptr_ptr,
                                 response_len_ptr |-> dest.len_ptr]
                        returned == invoke_extension(user_state.extensions, memory,
                                                     handle, args, result)
                    IN  /\ user_state' = [user_state EXCEPT !.extensions = returned.extensions]
                        /\ memory' = returned.memory
                        /\ call' = [call EXCEPT !.name = "invoke", !.handle = handle,
                                                !.args_ok = validate_range(request.ptr,
                                                                           request.len),
                                                !.status = returned.status]
    /\ UNCHANGED <<loaderVars, helperVars, shaperVars, padder, lookupVars, extension_factories, channels,
                   channel_switchboard,
                   uwabi_extensions, abi, flight, handler>>

\* WasmState::invoke is over: main returned or trapped, which is only logged
MainCompletes ==
    /\ handler.pc = "main"
    /\ \E how \in {"returned", "trapped"} :
          handler' = [handler EXCEPT !.pc = "terminating", !.main = how]
    /\ UNCHANGED <<loaderVars, helperVars, shaperVars, padder, lookupVars, channelVars, user_state, call>>

\* one round of extensions.values_mut().try_for_each(|e| e.terminate())?:
\* the map's order is arbitrary; the first Err ends the loop and is returned
Terminate(h) ==
    /\ handler.pc = "terminating"
    /\ h \in DOMAIN user_state.extensions
    /\ ~user_state.extensions[h].terminated
    /\ user_state' = [user_state EXCEPT !.extensions[h].terminated = TRUE]
    /\ handler' = IF user_state.extensions[h].terminate = "Err"
                  THEN [handler EXCEPT !.pc = "returned", !.result = "Err"]
                  ELSE handler
    /\ UNCHANGED <<loaderVars, helperVars, shaperVars, padder, lookupVars, channelVars, call>>

\* the loop is through: Ok(wasm_state.get_response_bytes())
Return ==
    /\ handler.pc = "terminating"
    /\ \A h \in DOMAIN user_state.extensions : user_state.extensions[h].terminated
    /\ handler' = [handler EXCEPT !.pc = "returned", !.result = "Ok",
                                  !.response = user_state.response_bytes]
    /\ UNCHANGED <<loaderVars, helperVars, shaperVars, padder, lookupVars, channelVars, user_state, call>>

\* init_wasm_state: an extension from every factory, the empty response
InitWasm ==
    /\ IdleLoaderVars
    /\ IdleHelperVars
    /\ config = [constant_response_size_bytes |-> MIN_RESPONSE_SIZE,
                 constant_processing_time |-> [secs |-> 0, nanos |-> 0]]
    /\ startup = "init"
    /\ server = NoServerPolicy
    /\ req = [r \in Requests |-> IdleRequest]
    /\ padder = IdlePadder
    /\ InitLookupVars
    /\ extension_factories = <<>>
    /\ channels = init(<<>>).channels
    /\ channel_switchboard = init(<<>>).channel_switchboard
    /\ uwabi_extensions = init(<<>>).uwabi_extensions
    /\ memory = GuestMemory(ResponseSource)
    /\ abi = IdleAbi
    /\ flight = [module |-> <<>>, runtime |-> <<>>]
    /\ \E extensions \in NewExtensions : user_state = UserState_init(extensions)
    /\ handler = [IdleHandler EXCEPT !.pc = "main"]
    /\ call = IdleCall

\* the handler serves its next request: init_wasm_state creates an extension
\* from each of the same factories, UserState::init the empty response and
\* WasmState::new a new instance of the module; the state of the request
\* before was dropped when handle_raw_invoke returned
NextRequest ==
    /\ handler.pc = "returned"
    /\ \E extensions \in NewExtensions :
          /\ DOMAIN extensions = DOMAIN user_state.extensions
          /\ user_state' = UserState_init(extensions)
    /\ memory' = GuestMemory(ResponseSource)
    /\ handler' = [IdleHandler EXCEPT !.pc = "main",
                                      !.previous = [result |-> handler.result,
                                                    response |-> handler.response]]
    /\ call' = IdleCall
    /\ UNCHANGED <<loaderVars, helperVars, shaperVars, padder, lookupVars, extension_factories, channels,
                   channel_switchboard,
                   uwabi_extensions, abi, flight>>

NextWasm ==
    \/ WriteResponse
    \/ InvokeExtension
    \/ MainCompletes
    \/ \E h \in ExtensionHandles : Terminate(h)
    \/ Return

SpecWasm == InitWasm /\ [][NextWasm]_vars

\* one handler serving request after request
NextRequests == NextWasm \/ NextRequest

SpecRequests == InitWasm /\ [][NextRequests]_vars

(***************************************************************************)
(* Properties of the shaper.                                               *)
(***************************************************************************)
Returned(r) == req[r].pc = "returned"

N == server.constant_response_size_bytes
T == server.constant_processing_time_ms

\* the function had finished when the timer fired
FinishedInTime(r) == req[r].task.state = "done" /\ ~req[r].task.late

\* C1: under every validated policy and for every outcome of the wrapped
\* function (a response, an error, a panic, or not finished), apply_policy
\* returns Ok with a body of exactly N bytes; it never returns Err.
C1_ConstantSize ==
    \A r \in Requests :
        Returned(r) => /\ server.valid
                       /\ N >= MIN_RESPONSE_SIZE
                       /\ req[r].response.ok
                       /\ Len(req[r].response.body) = N

\* an oversized function response has been shaped
C1_Witness ==
    \E r \in Requests :
        /\ Returned(r) /\ FinishedInTime(r)
        /\ req[r].task.outcome.kind = "ok"
        /\ Len(req[r].task.outcome.body) > N

\* C2: apply_policy never returns before the timer of T milliseconds has
\* fired, also when the function finished earlier.
C2_NeverEarly ==
    \A r \in Requests : Returned(r) => req[r].waited >= T

\* the function finished before T, the response was emitted at T or later
C2_Witness ==
    \E r \in Requests :
        /\ Returned(r) /\ FinishedInTime(r)
        /\ req[r].task.early
        /\ req[r].waited >= T

\* what a network observer sees of a returned response
Observable(r) == [ok |-> req[r].response.ok, size |-> Len(req[r].response.body)]

\* C3: two invocations under the same policy, whatever their functions do:
\* after the same waiting time either both can emit or neither can (the
\* emission point is the end of the sleep), and once emitted the responses
\* have the same body length N.
C3_Noninterference ==
    \A r1, r2 \in Requests :
        /\ (r1 < r2 /\ req[r1].pc = "sleeping" /\ req[r2].pc = "sleeping"
              /\ req[r1].waited = req[r2].waited)
             => (ENABLED TimerFire(r1) <=> ENABLED TimerFire(r2))
        /\ (Returned(r1) /\ Returned(r2))
             => /\ Observable(r1) = Observable(r2)
                /\ Len(req[r1].response.body) = N

\* two invocations that ended differently were both emitted
C3_Witness ==
    /\ Returned(1) /\ Returned(2)
    /\ req[1].sampled.kind = "ok" /\ Len(req[1].sampled.body) < N
    /\ req[2].sampled.kind = "none"
    /\ req[1].response.status # req[2].response.status

TimeViolation(n) ==
    [ok |-> TRUE, status |-> "PolicyTimeViolation",
     body |-> REASON_NOT_AVAILABLE \o [i \in 1..(n - Len(REASON_NOT_AVAILABLE)) |-> 0],
     length |-> Len(REASON_NOT_AVAILABLE)]

\* C4: when the function has not finished by the time the timer fires, the
\* response is PolicyTimeViolation with the canned body, zero-padded to N,
\* whatever the function produces afterwards.
C4_TimeViolation ==
    \A r \in Requests :
        (Returned(r) /\ ~FinishedInTime(r)) => req[r].response = TimeViolation(N)

\* the function finished with a response after the timer had fired
C4_Witness ==
    \E r \in Requests :
        /\ Returned(r)
        /\ req[r].task.state = "done" /\ req[r].task.late
        /\ req[r].task.outcome.kind = "ok"

SizeViolation(n) ==
    [ok |-> TRUE, status |-> "PolicySizeViolation",
     body |-> REASON_TOO_LARGE \o [i \in 1..(n - Len(REASON_TOO_LARGE)) |-> 0],
     length |-> Len(REASON_TOO_LARGE)]

\* C5: a function response of exactly N bytes is returned with its own status
\* and body; one of N+1 bytes or more is replaced by PolicySizeViolation with
\* the canned body.
C5_SizeBoundary ==
    \A r \in Requests :
        (Returned(r) /\ FinishedInTime(r) /\ req[r].task.outcome.kind = "ok")
          => LET o == req[r].task.outcome
             IN  /\ Len(o.body) = N
                    => req[r].response =
                         [ok |-> TRUE, status |-> o.status, body |-> o.body, length |-> N]
                 /\ Len(o.body) >= N + 1
                    => req[r].response = SizeViolation(N)

\* one request answered with N bytes, the other with N+1
C5_Witness ==
    /\ Returned(1) /\ FinishedInTime(1) /\ req[1].task.outcome.kind = "ok"
    /\ Len(req[1].task.outcome.body) = N
    /\ Returned(2) /\ FinishedInTime(2) /\ req[2].task.outcome.kind = "ok"
    /\ Len(req[2].task.outcome.body) = N + 1

(***************************************************************************)
(* Properties of pad.                                                      *)
(***************************************************************************)
\* C6: for a body of at most N bytes, pad keeps the status, sets length to
\* the body's length and returns N bytes: the body followed by zeros, so the
\* first `length` bytes of the result are the body again; for a longer body
\* pad returns an error.
C6_Pad ==
    padder.pc \in {"once", "twice"} =>
        LET r == padder.r
            n == padder.body_size
            o == padder.once
        IN  IF Len(r.body) <= n
            THEN /\ o.ok
                 /\ o.status = r.status
                 /\ o.length = Len(r.body)
                 /\ Len(o.body) = n
                 /\ \A i \in 1..n :
                       o.body[i] = IF i <= Len(r.body) THEN r.body[i] ELSE 0
                 /\ SubSeq(o.body, 1, o.length) = r.body
            ELSE ~o.ok

\* a non-empty body shorter than N has been padded
C6_Witness ==
    /\ padder.pc = "once"
    /\ Len(padder.r.body) >= 1
    /\ Len(padder.r.body) < padder.body_size

\* C7 as stated: padding a padded response gives the padded response again,
\* in status, body and length.
C7_Idempotent ==
    padder.pc = "twice" => padder.twice = padder.once

\* C7 amended: padding a padded response keeps its status and body, and sets
\* length to N (the padded body's length), so the second result equals the
\* first in all three fields exactly when the original body had N bytes.
C7_IdempotentUpToLength ==
    padder.pc = "twice" =>
        /\ padder.twice.ok
        /\ padder.twice.status = padder.once.status
        /\ padder.twice.body = padder.once.body
        /\ padder.twice.length = padder.body_size
        /\ (padder.twice = padder.once) <=> (Len(padder.r.body) = padder.body_size)

\* a body shorter than N has been padded twice
C7_Witness ==
    /\ padder.pc = "twice"
    /\ Len(padder.r.body) < padder.body_size

(***************************************************************************)
(* Properties of Policy::validate.                                         *)
(***************************************************************************)
AtLeastOneMilli(d) == d.secs > 0 \/ d.nanos >= NanosPerMilli

\* C8 as stated: a policy is accepted only if N >= 50 and T >= 1 ms, and
\* N = 50 with T >= 1 ms is accepted (stated here for durations of at most
\* two seconds, far from the u32 limit).
C8_RejectsShortTime ==
    startup # "init" =>
        /\ server.valid => /\ config.constant_response_size_bytes >= 50
                           /\ AtLeastOneMilli(config.constant_processing_time)
        /\ (config.constant_response_size_bytes = 50
              /\ AtLeastOneMilli(config.constant_processing_time)
              /\ config.constant_processing_time.secs <= 1) => server.valid

\* C8 amended: a policy is accepted exactly if N >= 50 and T in whole
\* milliseconds fits a u32; T has no lower bound (0 ms, also a duration
\* below 1 ms truncated to 0 ms, is accepted); the accepted policy carries N
\* and the truncated milliseconds.
C8_Validate ==
    startup # "init" =>
        LET d == config.constant_processing_time
            accepted == /\ config.constant_response_size_bytes >= 50
                        /\ \/ d.secs <= 4294966
                           \/ d.secs = 4294967 /\ d.nanos < 296000000
        IN  /\ server.valid <=> accepted
            /\ startup = IF accepted THEN "serving" ELSE "failed"
            /\ accepted =>
                 /\ server.constant_response_size_bytes
                      = config.constant_response_size_bytes
                 /\ server.constant_processing_time_ms * NanosPerMilli
                      <= d.secs * 1000 * NanosPerMilli + d.nanos
                 /\ (server.constant_processing_time_ms + 1) * NanosPerMilli
                      > d.secs * 1000 * NanosPerMilli + d.nanos

\* the smallest size with a duration below one millisecond has been accepted
C8_Witness ==
    /\ startup = "serving"
    /\ config.constant_response_size_bytes = 50
    /\ ~AtLeastOneMilli(config.constant_processing_time)
    /\ server.constant_processing_time_ms = 0

(***************************************************************************)
(* Properties of the lookup data manager.                                  *)
(***************************************************************************)
\* everything a LookupData answers: get for every key, and len
Answers(data) == [gets |-> [k \in Keys |-> get(data, k)], len |-> len(data)]

HasHandle(r) == rd[r].pc = "ready"

\* C9: a LookupData gives the same get and len results for its whole life,
\* whatever updates other tasks complete meanwhile: the results it gave when
\* it was created, i.e. those of the snapshot at the start of its request;
\* and every lookup the request made returned that snapshot's value.
C9_SnapshotStable ==
    \A r \in Readers :
        HasHandle(r) =>
            /\ Answers(arcs[rd[r].data]) = Answers(rd[r].at_creation)
            /\ rd[r].key \in Keys => rd[r].value = get(rd[r].at_creation, rd[r].key)

\* a request that began before an update still sees v1 for key 1 after the
\* update to v2, which a request begun after the update sees
C9_Witness ==
    /\ HasHandle("r1") /\ HasHandle("r2")
    /\ rd["r1"].epoch < rd["r2"].epoch
    /\ rd["r1"].key = 1 /\ rd["r1"].value = "v1"
    /\ rd["r2"].key = 1 /\ rd["r2"].value = "v2"

\* C10: update_data(StartAndFinish, new_map) returns Finished and makes
\* exactly new_map the current snapshot (no entry of an earlier snapshot or of
\* another caller's map remains); every LookupData holds the whole map of the
\* latest update completed before its creation (the empty map if none), so
\* two of them created with no update in between hold the same contents.
C10_Replacement ==
    /\ \A u \in Updaters : upd[u].status \in {"none", "Finished"}
    /\ arcs[mgr.data] = hist.installed
    /\ hist.count = 0 => hist.installed = EmptyData
    /\ \A r \in Readers : HasHandle(r) => arcs[rd[r].data] = rd[r].expected
    /\ \A r1, r2 \in Readers :
          (HasHandle(r1) /\ HasHandle(r2) /\ rd[r1].epoch = rd[r2].epoch)
            => arcs[rd[r1].data] = arcs[rd[r2].data]

\* two updaters have each completed an update, the second map lacks a key of
\* the first, and a reader holds the second
C10_Witness ==
    /\ upd["u1"].status = "Finished" /\ upd["u2"].status = "Finished"
    /\ hist.count = 2
    /\ \E k \in Keys : k \in DOMAIN arcs[2] /\ k \notin DOMAIN arcs[3]
    /\ \E r \in Readers : HasHandle(r) /\ rd[r].data = 3

\* C11: the lookup extension's invoke always returns Ok, with the value its
\* snapshot maps the key to or absent when the snapshot has no such key, and
\* the step changes neither the snapshot, nor any Arc, nor the manager.
C11_InvokeNeverFails ==
    [][\A r \in Readers :
          (rd[r].pc = "ready" /\ rd'[r].pc = "ready" /\ rd'[r] # rd[r]) =>
             /\ rd'[r].status = "Ok"
             /\ rd'[r].value = IF rd'[r].key \in DOMAIN arcs[rd[r].data]
                               THEN arcs[rd[r].data][rd'[r].key]
                               ELSE "absent"
             /\ rd'[r].data = rd[r].data
             /\ arcs' = arcs
             /\ mgr' = mgr]_vars

\* one request has looked up a missing key and another a present one
C11_Witness ==
    \E r1, r2 \in Readers :
       /\ HasHandle(r1) /\ rd[r1].status = "Ok" /\ rd[r1].value = "absent"
       /\ rd[r1].key \notin DOMAIN arcs[rd[r1].data]
       /\ HasHandle(r2) /\ rd[r2].status = "Ok" /\ rd[r2].value \in Vals
       /\ rd[r2].key \in DOMAIN arcs[rd[r2].data]

(***************************************************************************)
(* Properties of the channels.                                             *)
(***************************************************************************)
\* the channel handle resolves to a hosted endpoint
Registered(channel_handle) ==
    ChannelHandle_from_i32(channel_handle) \in DOMAIN channel_switchboard

\* the extension holding the peer endpoint is alive
PeerAlive(channel_handle) ==
    \E i \in DOMAIN uwabi_extensions :
       uwabi_extensions[i].channel_handle = ChannelHandle_from_i32(channel_handle)

\* the peer endpoint still receives: its extension is alive and has not
\* called close()
PeerReceives(channel_handle) ==
    LET h == ChannelHandle_from_i32(channel_handle)
    IN  \E i \in DOMAIN uwabi_extensions :
           /\ uwabi_extensions[i].channel_handle = h
           /\ uwabi_extensions[i].endpoint.receiver = channel_switchboard[h].sender
           /\ channels[uwabi_extensions[i].endpoint.receiver].receiver = "open"

\* the step is a channel_read, resp. a channel_write, of the guest
ReadStep == abi'.call = "channel_read" /\ abi' # abi
WriteStep ==
    /\ abi'.call = "channel_write"
    /\ (abi' # abi \/ Len(flight'.module) > Len(flight.module))

\* what the guest finds where the two result cells point
ReadBack ==
    LET ptr == read_u32([i \in 1..4 |-> memory[GuestLayout.dest_ptr_ptr + i - 1]])
        length == read_u32([i \in 1..4 |-> memory[GuestLayout.dest_len_ptr + i - 1]])
    IN  [i \in 1..length |-> memory[ptr + i - 1]]

\* C12: what the guest's endpoint receives is the oldest message the
\* extension's endpoint sent, byte for byte, also where channel_read puts it
\* in guest memory; what the extension's endpoint receives is the oldest
\* message the guest's endpoint sent; no endpoint receives its own message.
C12_CrossedWiring ==
    /\ abi.call = "channel_read" =>
          /\ abi.message = abi.expected
          /\ abi.message \notin GuestMessages
          /\ abi.status = "ChannelOk" => ReadBack = abi.expected
    /\ \A h \in DOMAIN uwabi_extensions :
          /\ uwabi_extensions[h].message = uwabi_extensions[h].expected
          /\ uwabi_extensions[h].message \notin RuntimeMessages

\* each side has received a message of the other
C12_Witness ==
    /\ abi.call = "channel_read" /\ abi.status = "ChannelOk"
    /\ abi.message \in RuntimeMessages
    /\ ReadBack = abi.message
    /\ \E h \in DOMAIN uwabi_extensions : uwabi_extensions[h].message \in GuestMessages

\* C13: at most UWABI_CHANNEL_BOUND messages wait for the extension; a
\* channel_write on a registered handle with a readable source returns
\* ChannelOk while fewer wait and ChannelFull when that many wait, whatever
\* waits in the opposite direction.
C13_Capacity ==
    [][/\ Len(flight'.module) <= UWABI_CHANNEL_BOUND
       /\ (WriteStep /\ abi'.args_ok /\ Registered(abi'.channel_handle)) =>
             /\ abi'.status = IF Len(flight.module) < UWABI_CHANNEL_BOUND
                              THEN "ChannelOk" ELSE "ChannelFull"
             /\ Len(flight'.module) = IF Len(flight.module) < UWABI_CHANNEL_BOUND
                                      THEN Len(flight.module) + 1
                                      ELSE UWABI_CHANNEL_BOUND
             /\ flight'.runtime = flight.runtime]_vars

\* the write after UWABI_CHANNEL_BOUND unread ones, with messages waiting in
\* the opposite direction too
C13_Witness ==
    /\ abi.call = "channel_write" /\ abi.status = "ChannelFull"
    /\ Len(flight.module) = UWABI_CHANNEL_BOUND
    /\ Len(flight.runtime) = MaxRuntimePending

\* C14: receiving on either endpoint of a fresh pair gives Empty; a
\* channel_read on a registered handle whose extension is alive and has
\* nothing pending returns ChannelEmpty, whatever the destination pointers,
\* and changes neither guest memory nor the channels.
C14_Empty ==
    [][/\ \A c \in {channel_create.endpoint0.receiver, channel_create.endpoint1.receiver} :
             try_recv(channel).status = "Empty"
       /\ (ReadStep /\ Registered(abi'.channel_handle)
             /\ PeerAlive(abi'.channel_handle) /\ flight.runtime = <<>>) =>
             /\ abi'.status = "ChannelEmpty"
             /\ memory' = memory
             /\ channels' = channels]_vars

\* ChannelEmpty was returned for pointers outside guest memory
C14_Witness ==
    /\ abi.call = "channel_read" /\ abi.status = "ChannelEmpty"
    /\ ~abi.args_ok
    /\ Registered(abi.channel_handle) /\ PeerAlive(abi.channel_handle)
    /\ flight.runtime = <<>>

\* C15: once the extension is dropped and nothing it sent is pending,
\* channel_read on its handle returns ChannelEndpointDisconnected.
C15_Disconnected ==
    [][(ReadStep /\ Registered(abi'.channel_handle)
          /\ ~PeerAlive(abi'.channel_handle) /\ flight.runtime = <<>>) =>
          abi'.status = "ChannelEndpointDisconnected"]_vars

\* the extension sent a message, was dropped, the guest read the message and
\* read again
C15_Witness ==
    /\ abi.call = "channel_read" /\ abi.status = "ChannelEndpointDisconnected"
    /\ Registered(abi.channel_handle) /\ ~PeerAlive(abi.channel_handle)
    /\ flight.runtime = <<>>
    /\ ReadBack \in RuntimeMessages

\* C16: once the extension has called close() or is dropped, no
\* channel_write on its handle succeeds: with a readable source it returns
\* ChannelEndpointClosed, and nothing is added to what waits for the
\* extension.
C16_Closed ==
    [][(WriteStep /\ Registered(abi'.channel_handle)
          /\ ~PeerReceives(abi'.channel_handle)) =>
          /\ abi'.status # "ChannelOk"
          /\ abi'.args_ok => abi'.status = "ChannelEndpointClosed"
          /\ channels' = channels
          /\ flight' = flight]_vars

\* a write after close(), with the extension still alive
C16_Witness ==
    /\ abi.call = "channel_write" /\ abi.status = "ChannelEndpointClosed"
    /\ PeerAlive(abi.channel_handle) /\ ~PeerReceives(abi.channel_handle)

\* C17: a handle outside the enumeration, or of the enumeration with no
\* endpoint in the switchboard, resolves to ChannelHandleInvalid; a
\* channel_read with it returns that status, a channel_write with it returns
\* that status once its source is read, and neither touches a channel or
\* guest memory.
C17_HandleInvalid ==
    [][/\ \A h \in AbiChannelHandles :
             ~Registered(h) =>
                get_endpoint_from_channel_handle(channel_switchboard, h).status
                   = "ChannelHandleInvalid"
       /\ ((ReadStep \/ WriteStep) /\ ~Registered(abi'.channel_handle)) =>
             /\ abi'.status = IF abi'.call = "channel_write" /\ ~abi'.args_ok
                              THEN "ChannelInvalidArgs" ELSE "ChannelHandleInvalid"
             /\ channels' = channels
             /\ memory' = memory
             /\ flight' = flight]_vars

\* handle 0 (Unspecified) was used while Testing has an endpoint
C17_Witness ==
    /\ abi.status = "ChannelHandleInvalid" /\ abi.channel_handle = 0
    /\ Registered(1)
    /\ ~Registered(0)

(***************************************************************************)
(* Properties of the guest ABI and of handle_raw_invoke.                   *)
(***************************************************************************)
\* the step is an invoke of the guest
InvokeStep == call'.name = "invoke" /\ call' # call

\* the handle passed to invoke names no extension of this request
NoExtension(handle) ==
    ExtensionHandle_from_i32(handle) \notin DOMAIN user_state.extensions

\* C18: response_bytes are the bytes of the latest write_response that
\* returned Ok, and empty if there was none; write_response returns Ok
\* exactly when its range is in guest memory, so one that fails changes
\* nothing; handle_raw_invoke returns these bytes.
C18_LastWriterWins ==
    /\ user_state.response_bytes = call.written
    /\ call.name = "write_response" =>
          call.status = IF call.args_ok THEN "Ok" ELSE "ErrInvalidArgs"
    /\ (handler.pc = "returned" /\ handler.result = "Ok") =>
          handler.response = call.written

\* "A" was written, then "BB", then a write failed, and "BB" was returned
C18_Witness ==
    /\ handler.pc = "returned" /\ handler.result = "Ok"
    /\ handler.response = <<66, 66>>
    /\ call.previous = <<65>>
    /\ call.name = "write_response" /\ call.status = "ErrInvalidArgs"

\* C19 as stated: an invoke whose handle names no extension of this request
\* returns ErrInvalidHandle, runs no extension and writes nothing to guest
\* memory.
C19_InvalidHandle ==
    [][(InvokeStep /\ NoExtension(call'.handle)) =>
          /\ call'.status = "ErrInvalidHandle"
          /\ user_state' = user_state
          /\ memory' = memory]_vars

\* C19: an invoke whose handle names no extension of this request runs no
\* extension and writes nothing to guest memory; it returns ErrInvalidHandle
\* when its request range is in guest memory and ErrInvalidArgs when it is
\* not, the request being read before the handle is resolved.
C19_InvalidHandleAfterRequest ==
    [][(InvokeStep /\ NoExtension(call'.handle)) =>
          /\ call'.status = IF call'.args_ok THEN "ErrInvalidHandle"
                            ELSE "ErrInvalidArgs"
          /\ user_state' = user_state
          /\ memory' = memory]_vars

\* handle 2 is of the enumeration, but only the lookup extension was created
C19_Witness ==
    /\ call.name = "invoke" /\ call.status = "ErrInvalidHandle"
    /\ call.handle = 2
    /\ DOMAIN user_state.extensions = {"LookupHandle"}
    /\ user_state.extensions["LookupHandle"].invoked = 0
    /\ memory = GuestMemory(ResponseSource)

\* C20: when handle_raw_invoke has returned, terminate has been called on
\* every extension created for the request, also when the terminate of one
\* of them returned an error.
C20_TerminateAll ==
    handler.pc = "returned" =>
       \A h \in DOMAIN user_state.extensions : user_state.extensions[h].terminated

(***************************************************************************)
(* Errors, panics and late results of the wrapped function.                *)
(***************************************************************************)
\* an error message of at most n bytes behind InternalServerError
InternalError(message, n) ==
    [ok |-> TRUE, status |-> "InternalServerError",
     body |-> message \o [i \in 1..(n - Len(message)) |-> 0],
     length |-> Len(message)]

\* C21: when the function has finished with an error by the time the timer
\* fires, the response is never Success: it is InternalServerError with the
\* error's message, zero-padded to N, and under the size rule a message
\* longer than N is replaced by PolicySizeViolation.
C21_ErrorInTime ==
    \A r \in Requests :
        (Returned(r) /\ req[r].sampled.kind = "err") =>
            /\ req[r].response.status # "Success"
            /\ req[r].response =
                  IF Len(req[r].sampled.body) <= N
                  THEN InternalError(req[r].sampled.body, N)
                  ELSE SizeViolation(N)

\* an error with a short message was shaped
C21_Witness ==
    \E r \in Requests :
        /\ Returned(r) /\ FinishedInTime(r)
        /\ req[r].task.outcome = Outcome("err", "none", <<101>>)
        /\ req[r].response.status = "InternalServerError"
        /\ req[r].response.length = 1

\* C23: a panic of the function stays in its task: when the task has ended
\* by a panic as the timer fires, apply_policy returns Ok with
\* InternalServerError and the canned internal-error body, zero-padded to N,
\* and the other request is answered according to its own task.
C23_PanicConfined ==
    \A r \in Requests :
        (Returned(r) /\ req[r].sampled.kind = "panic") =>
            /\ req[r].response = InternalError(REASON_INTERNAL, N)
            /\ \A q \in Requests :
                  Returned(q) => req[q].response = shape(server, req[q].sampled)

\* one request panicked, the other one was answered with Success
C23_Witness ==
    /\ Returned(1) /\ FinishedInTime(1)
    /\ req[1].task.outcome.kind = "panic"
    /\ Returned(2) /\ req[2].response.status = "Success"

\* C29: the return of apply_policy leaves the task as it is, so a function
\* still running then stays running and can finish later; a response once
\* returned never changes, and a task finishing after the return of its
\* request changes nothing of the other request, whose response is shaped
\* from its own task alone.
C29_Abandoned ==
    [][\A r \in Requests :
          /\ (req[r].pc = "sleeping" /\ Returned(r)') =>
                /\ req'[r].task = req[r].task
                /\ req'[r].response = shape(server, now_or_never(req[r].task))
          /\ Returned(r) =>
                /\ Returned(r)'
                /\ req'[r].response = req[r].response
                /\ req'[r].sampled = req[r].sampled
          /\ (Returned(r) /\ req[r].task.state = "running" /\ req'[r].task # req[r].task) =>
                /\ req'[r].task.state = "done" /\ req'[r].task.late
                /\ \A q \in Requests \ {r} : req'[q] = req[q]]_vars

\* the first function finished after PolicyTimeViolation had been returned
\* for it; the second request got the response of its own function
C29_Witness ==
    /\ Returned(1) /\ req[1].response.status = "PolicyTimeViolation"
    /\ req[1].task.state = "done" /\ req[1].task.late
    /\ req[1].task.outcome.kind = "ok"
    /\ Returned(2) /\ req[2].sampled.kind = "ok"
    /\ req[2].response.status = "Success"

\* C28: a request is accepted only once startup has ended in serving, which
\* it does exactly when the configuration has a policy and Policy::validate
\* accepts it; the server then runs under the validated policy; with no
\* policy or a rejected one startup fails and no request is ever accepted.
C28_ValidatedBeforeServing ==
    /\ startup = "serving" =>
          /\ config # NoPolicy
          /\ validate(config).valid
          /\ server = validate(config)
    /\ (startup = "failed") <=>
          (startup # "init" /\ (config = NoPolicy \/ ~validate(config).valid))
    /\ \A r \in Requests : req[r].pc # "idle" => startup = "serving"

\* a request was answered after its policy had been validated
C28_Witness ==
    /\ startup = "serving" /\ server.valid
    /\ \E r \in Requests : Returned(r) /\ req[r].response.ok

\* C30: whenever the builder lock is free the builder is Empty with no data:
\* an update extends and builds under one hold of the lock; so every
\* update_data(StartAndFinish, _) finds the builder Empty and returns
\* Finished, never Aborted, under every interleaving of the updaters.
C30_AlwaysFinished ==
    /\ mgr.builder_lock = "free" => mgr.data_builder = NewBuilder
    /\ \A u \in Updaters :
          /\ upd[u].pc = "locked" => mgr.data_builder.state = "Empty"
          /\ upd[u].pc = "idle" => upd[u].status \in {"none", "Finished"}
          /\ upd[u].status # "Aborted"

\* one updater has finished and the other, which took the lock after it, has
\* found the builder Empty and built its map
C30_Witness ==
    /\ upd["u1"].pc = "idle" /\ upd["u1"].status = "Finished"
    /\ upd["u2"].pc = "built" /\ mgr.builder_lock = "u2"
    /\ upd["u2"].next_data = upd["u2"].new_data
    /\ upd["u2"].new_data # EmptyData

(***************************************************************************)
(* Properties of handle_invoke and of consecutive requests.                *)
(***************************************************************************)
\* C22: when main has trapped and handle_raw_invoke has returned, the
\* response shaped from what handle_invoke returns has status
\* InternalServerError.
C22_TrapIsError ==
    (handler.pc = "returned" /\ handler.main = "trapped") =>
        shape(validate(config), handle_invoke(handler)).status = "InternalServerError"

\* the request has made no host call yet
AtStart == handler.pc = "main" /\ call.name = "none"

\* C24: every request starts from the same state whatever the requests
\* before it did: empty response bytes, extensions neither invoked nor
\* terminated, the memory of a new instance of the module; and what it
\* returns are the bytes of its own latest write_response, empty if it made
\* none.
C24_NothingSurvives ==
    /\ AtStart =>
          /\ user_state.response_bytes = <<>>
          /\ \A h \in DOMAIN user_state.extensions :
                /\ user_state.extensions[h].invoked = 0
                /\ ~user_state.extensions[h].terminated
          /\ memory = GuestMemory(ResponseSource)
          /\ call = IdleCall
    /\ (handler.pc = "returned" /\ handler.result = "Ok") =>
          handler.response = call.written

\* a request that made no host call returned the empty response after a
\* request that had returned "BB"
C24_Witness ==
    /\ handler.pc = "returned" /\ handler.result = "Ok"
    /\ handler.previous = [result |-> "Ok", response |-> <<66, 66>>]
    /\ call.name = "none"
    /\ handler.response = <<>>

(***************************************************************************)
(* Properties of the wiring made by WasmHandler::init.                     *)
(***************************************************************************)
\* the two endpoints are the two ends of one pair
Connected(e, f) == e.sender = f.receiver /\ e.receiver = f.sender

\* the extension registered last under the handle of extension i
Latest(i) ==
    CHOOSE j \in DOMAIN uwabi_extensions :
       /\ uwabi_extensions[j].channel_handle = uwabi_extensions[i].channel_handle
       /\ \A k \in DOMAIN uwabi_extensions :
             uwabi_extensions[k].channel_handle = uwabi_extensions[i].channel_handle
               => k <= j

\* nobody holds the other end of the endpoint: sending on it gives Closed,
\* receiving gives Disconnected
Orphaned(endpoint) ==
    /\ channels[endpoint.sender].receiver = "dropped"
    /\ channels[endpoint.receiver].sender = "dropped"
    /\ \A message \in RuntimeMessages :
          try_send(channels[endpoint.sender], message).status = "Closed"
    /\ try_recv(channels[endpoint.receiver]).status = "Disconnected"

\* C25: register makes a new pair each time, so no two extensions hold the
\* same endpoint; the switchboard's endpoint of a handle is the other end of
\* the endpoint of the extension registered last under that handle, which
\* receives what the guest writes; an extension registered earlier under the
\* same handle holds an endpoint whose other end was dropped on the
\* replacement, and receives nothing.
C25_Register ==
    \A i \in DOMAIN uwabi_extensions :
       LET extension == uwabi_extensions[i]
           hosted == channel_switchboard[extension.channel_handle]
       IN  /\ extension.channel_handle \in DOMAIN channel_switchboard
           /\ \A j \in DOMAIN uwabi_extensions :
                 j # i => uwabi_extensions[j].endpoint # extension.endpoint
           /\ extension.message = extension.expected
           /\ IF i = Latest(i)
              THEN Connected(extension.endpoint, hosted)
              ELSE /\ ~Connected(extension.endpoint, hosted)
                   /\ Orphaned(extension.endpoint)
                   /\ extension.message = <<>>

\* of two extensions registered under Testing the second has received the
\* guest's message
C25_Witness ==
    /\ extension_factories = <<"Testing", "Testing">>
    /\ Len(uwabi_extensions) = 2
    /\ uwabi_extensions[2].message \in GuestMessages
    /\ uwabi_extensions[1].message = <<>>
    /\ abi.call = "channel_write" /\ abi.status = "ChannelOk"

\* the channel handles of the Uwabi extensions the factories create
FactoryHandles ==
    {create(extension_factories[k]).channel_handle :
        k \in {n \in DOMAIN extension_factories :
                  create(extension_factories[n]).kind = "Uwabi"}}

\* C26: the switchboard made by init has an endpoint for exactly the channel
\* handles of the Uwabi extensions of the factories (for Testing if there is
\* a TestingFactory, never for Unspecified); every Uwabi extension has an
\* endpoint from init on, and as long as the extensions of a handle are
\* there, one of them holds the other end of the switchboard's endpoint.
C26_InitWiring ==
    /\ DOMAIN channel_switchboard = FactoryHandles
    /\ "Unspecified" \notin DOMAIN channel_switchboard
    /\ \A i \in DOMAIN uwabi_extensions : uwabi_extensions[i].endpoint # NoEndpoint
    /\ (abi = IdleAbi /\ Len(uwabi_extensions) = Len(Uwabi(extension_factories))) =>
          \A h \in DOMAIN channel_switchboard :
             \E i \in DOMAIN uwabi_extensions :
                /\ uwabi_extensions[i].channel_handle = h
                /\ Connected(uwabi_extensions[i].endpoint, channel_switchboard[h])

\* a handler with a native factory and a TestingFactory, before the guest
\* has made a call
C26_Witness ==
    /\ extension_factories = <<"Native", "Testing">>
    /\ DOMAIN channel_switchboard = {"Testing"}
    /\ abi = IdleAbi
    /\ Len(uwabi_extensions) = 1
    /\ Connected(uwabi_extensions[1].endpoint, channel_switchboard["Testing"])
    /\ channels[uwabi_extensions[1].endpoint.receiver] = channel

\* C27: set_endpoint on an extension that has an endpoint leaves it with
\* that endpoint, and leaves the two channels of that endpoint as they are.
C27_OneShot ==
    [][\A i \in DOMAIN uwabi_extensions :
          (/\ Len(uwabi_extensions') = Len(uwabi_extensions)
           /\ uwabi_extensions'[i].offered # uwabi_extensions[i].offered
           /\ uwabi_extensions[i].endpoint # NoEndpoint) =>
             LET endpoint == uwabi_extensions[i].endpoint
             IN  /\ uwabi_extensions'[i].endpoint = endpoint
                 /\ channels'[endpoint.sender] = channels[endpoint.sender]
                 /\ channels'[endpoint.receiver] = channels[endpoint.receiver]]_vars

\* an extension was offered another endpoint and then received the guest's
\* message on the endpoint init gave it
C27_Witness ==
    \E i \in DOMAIN uwabi_extensions :
       /\ uwabi_extensions[i].offered # uwabi_extensions[i].endpoint
       /\ Connected(uwabi_extensions[i].endpoint,
                    channel_switchboard[uwabi_extensions[i].channel_handle])
       /\ Orphaned(uwabi_extensions[i].offered)
       /\ uwabi_extensions[i].message \in GuestMessages

(***************************************************************************)
(* Progress of the lookup data manager.                                    *)
(***************************************************************************)
\* C31: the data lock is only ever held by a call that needs no other lock
\* to go on, and the holder of the builder lock waits for nothing but the
\* data lock; so every update_data that has taken the builder lock returns,
\* and every create_lookup_data that has taken the data lock returns with
\* its handle, whatever the other updaters and readers do.
C31_NoDeadlock ==
    /\ \A u \in Updaters : (upd[u].pc # "idle") ~> (upd[u].pc = "idle")
    /\ \A r \in Readers : (rd[r].pc = "cloning") ~> (rd[r].pc = "ready")
    /\ [](\A u \in Updaters :
             upd[u].pc = "built" =>
                \/ mgr.data_lock = "free"
                \/ \E r \in Readers : mgr.data_lock = r /\ rd[r].pc = "cloning")

\* an updater holding the builder lock waits for the data lock, which a
\* reader holds
C31_Witness ==
    \E u \in Updaters, r \in Readers :
       /\ upd[u].pc = "built" /\ mgr.builder_lock = u
       /\ rd[r].pc = "cloning" /\ mgr.data_lock = r

(***************************************************************************)
(* The memory helpers on their own                                         *)
(***************************************************************************)
\* the addresses a helper is given: the first and the last ones of the
\* memory, the first one past it, and the last ones a u32 holds (2^32 - 2
\* and 2^32 - 1)
ProbePointers == {0, MemorySize - 2, MemorySize - 1, MemorySize, -2, -1}

\* the buffers it is given: none, one and two bytes
ProbeBuffers == {<<>>, <<7>>, <<7, 9>>}

\* WasmState::write_buffer_to_wasm_memory is called
WriteBufferToWasmMemory ==
    /\ \E dest \in ProbePointers, source \in ProbeBuffers :
          LET written == write_buffer_to_wasm_memory(memory, source, dest)
          IN  /\ memory' = written.memory
              /\ probe' = [probe EXCEPT !.host = [dest |-> dest, source |-> source,
                                                  status |-> written.status]]
    /\ UNCHANGED <<shaperVars, padder, lookupVars, wasmVars, loaderVars,
                   extension_factories, channels, channel_switchboard,
                   uwabi_extensions, abi, flight>>

\* the wasm crate's write_buffer is called
WriteBuffer ==
    /\ \E dest \in ProbePointers, source \in ProbeBuffers :
          LET written == write_buffer(memory, source, dest)
          IN  /\ memory' = written.memory
              /\ probe' = [probe EXCEPT !.wasm = [dest |-> dest, source |-> source,
                                                  status |-> written.status]]
    /\ UNCHANGED <<shaperVars, padder, lookupVars, wasmVars, loaderVars,
                   extension_factories, channels, channel_switchboard,
                   uwabi_extensions, abi, flight>>

InitRange ==
    /\ config = [constant_response_size_bytes |-> MIN_RESPONSE_SIZE,
                 constant_processing_time |-> [secs |-> 0, nanos |-> 0]]
    /\ startup = "init"
    /\ server = NoServerPolicy
    /\ req = [r \in Requests |-> IdleRequest]
    /\ padder = IdlePadder
    /\ InitLookupVars
    /\ IdleChannelVars
    /\ IdleWasmVars
    /\ IdleLoaderVars
    /\ IdleHelperVars

NextRange ==
    \/ WriteBufferToWasmMemory
    \/ WriteBuffer

SpecRange == InitRange /\ [][NextRange]_vars

(***************************************************************************)
(* Order of the messages of a channel                                      *)
(***************************************************************************)

\* the message sent last
Newest(sent) == IF sent = <<>> THEN Nothing ELSE sent[Len(sent)]

\* the messages an endpoint took in this step
Taken ==
    {abi'.message} \cup {uwabi_extensions'[i].message : i \in DOMAIN uwabi_extensions'}

\* the queue the guest's endpoint receives from, resp. sends to
GuestReceives(h) == channels[channel_switchboard[h].receiver].queue
GuestSends(h) == channels[channel_switchboard[h].sender].queue

\* C32: in each direction of a channel the messages are received in the
\* order they were sent, each once: a step leaves a queue alone, adds the
\* message sent at its end, takes its first message and hands that one to
\* the receiving endpoint, or drops it with its receiver; and the queue is
\* at any time what was sent and not yet received, in the order of sending.
C32_Fifo ==
    [][/\ \A c \in DOMAIN channels :
             LET q == channels[c].queue
                 q2 == channels'[c].queue
             IN  \/ q2 = q
                 \/ /\ Len(q2) = Len(q) + 1
                    /\ SubSeq(q2, 1, Len(q)) = q
                    /\ q2[Len(q2)] \in {Newest(flight'.module), Newest(flight'.runtime)}
                 \/ /\ q # <<>>
                    /\ q2 = Tail(q)
                    /\ Head(q) \in Taken
                 \/ /\ channels'[c].receiver = "dropped"
                    /\ q2 = <<>>
       /\ \A h \in DOMAIN channel_switchboard :
             /\ GuestReceives(h) = flight.runtime
             /\ GuestSends(h) = flight.module]_vars

\* the guest has taken a message while a different one, sent later, waits
\* behind it, and so has the extension
C32_Witness ==
    /\ abi.call = "channel_read" /\ abi.status = "ChannelOk"
    /\ flight.runtime # <<>> /\ Head(flight.runtime) # abi.message
    /\ \E i \in DOMAIN uwabi_extensions :
          /\ uwabi_extensions[i].message \in {<<42>>, <<42, 42>>}
          /\ flight.module # <<>>
          /\ Head(flight.module) # uwabi_extensions[i].message

\* the step is a channel_read of the guest that reports something new or
\* takes a message
ReadOrTake ==
    /\ abi'.call = "channel_read"
    /\ (abi' # abi \/ Len(flight'.runtime) < Len(flight.runtime))

\* C33: what the extension sent before it was dropped is still delivered:
\* on its handle channel_read takes the pending messages one by one, oldest
\* first, and reports ChannelEndpointDisconnected only when none is left.
C33_DrainedBeforeDisconnected ==
    [][(ReadOrTake /\ Registered(abi'.channel_handle)
          /\ ~PeerAlive(abi'.channel_handle)) =>
          IF flight.runtime # <<>>
          THEN /\ abi'.message = Head(flight.runtime)
               /\ flight'.runtime = Tail(flight.runtime)
               /\ LET endpoint == channel_switchboard[ChannelHandle_from_i32(abi'.channel_handle)]
                  IN  channels'[endpoint.receiver].queue = flight'.runtime
               /\ abi'.status # "ChannelEndpointDisconnected"
          ELSE abi'.status = "ChannelEndpointDisconnected"]_vars

\* the extension is dropped, the guest has been handed the older of two
\* different messages and the newer one still waits
C33_Witness ==
    /\ abi.call = "channel_read" /\ abi.status = "ChannelOk"
    /\ Registered(abi.channel_handle) /\ ~PeerAlive(abi.channel_handle)
    /\ ReadBack = abi.message
    /\ Len(flight.runtime) = 1 /\ Head(flight.runtime) # abi.message
    /\ GuestReceives(ChannelHandle_from_i32(abi.channel_handle)) = flight.runtime

\* C34: channel_read takes the message from the channel before it writes it
\* to the guest: when the buffer or one of the two result cells cannot be
\* written, the call returns ChannelInvalidArgs and the message it took is
\* gone from the channel.
C34_LostOnFailedWrite ==
    [][(ReadOrTake /\ Registered(abi'.channel_handle)
          /\ flight.runtime # <<>> /\ ~abi'.args_ok) =>
          LET endpoint == channel_switchboard[ChannelHandle_from_i32(abi'.channel_handle)]
          IN  /\ abi'.status = "ChannelInvalidArgs"
              /\ abi'.message = Head(channels[endpoint.receiver].queue)
              /\ channels'[endpoint.receiver].queue = Tail(channels[endpoint.receiver].queue)
              /\ flight'.runtime = Tail(flight.runtime)]_vars

\* a message of the extension was taken by a channel_read that could not
\* write it, and nothing waits for the guest any more
C34_Witness ==
    /\ abi.call = "channel_read" /\ abi.status = "ChannelInvalidArgs"
    /\ ~abi.args_ok
    /\ abi.message \in RuntimeMessages
    /\ Registered(abi.channel_handle)
    /\ GuestReceives(ChannelHandle_from_i32(abi.channel_handle)) = <<>>
    /\ ReadBack # abi.message

\* C35: channel_write reads its source before it looks at the handle, so a
\* source outside guest memory gives ChannelInvalidArgs whatever the handle,
\* while channel_read looks at the handle first, so a handle that is not
\* registered gives ChannelHandleInvalid whatever the pointers; and a
\* channel_write that does not return ChannelOk returns ChannelInvalidArgs,
\* ChannelHandleInvalid, ChannelFull or ChannelEndpointClosed and leaves
\* every queue as it was.
C35_FailedWrite ==
    [][/\ (WriteStep /\ ~abi'.args_ok) => abi'.status = "ChannelInvalidArgs"
       /\ (ReadStep /\ ~Registered(abi'.channel_handle)) =>
             abi'.status = "ChannelHandleInvalid"
       /\ (WriteStep /\ abi'.status # "ChannelOk") =>
             /\ abi'.status \in {"ChannelInvalidArgs", "ChannelHandleInvalid",
                                 "ChannelFull", "ChannelEndpointClosed"}
             /\ channels' = channels
             /\ flight' = flight]_vars

\* with messages waiting for the extension, a channel_write named a source
\* outside guest memory and a handle that is not registered
C35_Witness ==
    /\ abi.call = "channel_write" /\ abi.status = "ChannelInvalidArgs"
    /\ ~abi.args_ok /\ ~Registered(abi.channel_handle)
    /\ DOMAIN channel_switchboard # {}
    /\ \A h \in DOMAIN channel_switchboard : GuestSends(h) # <<>>

(***************************************************************************)
(* The size rule                                                           *)
(***************************************************************************)

\* the canned bodies of apply_policy
CannedBodies == {REASON_NOT_AVAILABLE, REASON_INTERNAL, REASON_TOO_LARGE}

\* C36: the size rule comes after the choice of the status and looks at the
\* body alone, whatever its kind: a response is PolicySizeViolation exactly
\* when the body chosen for it, be it the function's response or the message
\* of its error, is longer than N, and otherwise keeps the status and body
\* chosen; the canned bodies fit every validated policy, so a time violation
\* or a panic is never turned into a size violation and the size violation
\* itself is padded like any other response.
C36_SizeRuleLast ==
    \A r \in Requests :
        Returned(r) =>
            LET chosen == select_response(req[r].sampled)
            IN  /\ \A body \in CannedBodies : Len(body) <= N
                /\ req[r].response.ok
                /\ req[r].response.status = "PolicySizeViolation" <=> Len(chosen.body) > N
                /\ Len(chosen.body) > N => req[r].response = SizeViolation(N)
                /\ Len(chosen.body) <= N =>
                      /\ req[r].response.status = chosen.status
                      /\ req[r].response.length = Len(chosen.body)
                /\ req[r].sampled.kind = "none" => req[r].response = TimeViolation(N)
                /\ req[r].sampled.kind = "panic" =>
                      req[r].response = InternalError(REASON_INTERNAL, N)

\* under the smallest policy one request failed with a message of N + 1
\* bytes and was answered with the size violation, the other one ran out of
\* time and was answered with the time violation
C36_Witness ==
    \E r, q \in Requests :
        /\ N = MIN_RESPONSE_SIZE
        /\ Returned(r) /\ req[r].sampled = Outcome("err", "none", Fill(N + 1))
        /\ req[r].response = SizeViolation(N)
        /\ Returned(q) /\ req[q].sampled.kind = "none"
        /\ req[q].response = TimeViolation(N)

(***************************************************************************)
(* The bounds rule of the memory helpers                                   *)
(***************************************************************************)

\* len bytes at ptr end within the memory: ptr is below 2^31 and at most
\* MemorySize, and no more than MemorySize - ptr bytes follow
Fits(ptr, length) == ptr >= 0 /\ ptr <= MemorySize /\ length <= MemorySize - ptr

\* mem with source at ptr
Stored(mem, source, ptr) ==
    [a \in Addresses |->
       IF a >= ptr /\ a < ptr + Len(source) THEN source[a - ptr + 1] ELSE mem[a]]

\* what one write of a helper does, given the status it reports on violation
WritesByRule(write, invalid) ==
    IF Fits(write.dest, Len(write.source))
    THEN write.status = "Ok" /\ memory' = Stored(memory, write.source, write.dest)
    ELSE write.status = invalid /\ memory' = memory

\* C37: the host's write_buffer_to_wasm_memory and the wasm crate's
\* write_buffer write len bytes at ptr exactly when ptr + len <= memory size,
\* the sum taken exactly: a range ending at the last byte is written, one
\* whose sum passes 2^32 is not; otherwise they return ChannelInvalidArgs,
\* resp. ErrInvalidArgs, and leave the memory as it was.
C37_BoundsRule ==
    [][/\ probe'.host # probe.host => WritesByRule(probe'.host, "ChannelInvalidArgs")
       /\ probe'.wasm # probe.wasm => WritesByRule(probe'.wasm, "ErrInvalidArgs")
       /\ memory' # memory =>
             \E write \in {probe'.host, probe'.wasm} :
                /\ Fits(write.dest, Len(write.source))
                /\ write.status = "Ok"
                /\ memory' = Stored(memory, write.source, write.dest)]_vars

\* the host's helper has written two bytes up to the end of the memory and
\* they are there, and the wasm crate's helper has refused two bytes at
\* 2^32 - 1
C37_Witness ==
    /\ probe.host = [dest |-> MemorySize - 2, source |-> <<7, 9>>, status |-> "Ok"]
    /\ memory[MemorySize - 2] = 7 /\ memory[MemorySize - 1] = 9
    /\ probe.wasm = [dest |-> -1, source |-> <<7, 9>>, status |-> "ErrInvalidArgs"]

(***************************************************************************)
(* The initial load and the refreshes of the lookup data                   *)
(***************************************************************************)

\* the Arc that new_empty made
PreLoad == 1

\* the refresh task runs its loop
Looping == boot.task \in {"waiting", "ticked", "updating"}

\* C38: with a lookup source configured, the initial load is complete when
\* the manager is returned and when the server starts: an update has been
\* installed, requests come only once the server is up, and none of them
\* holds the empty map the manager was made with; when the initial load
\* fails, startup is aborted for good: no server, no refresh task, no
\* request.
C38_LoadedBeforeServing ==
    /\ [](boot.source =>
             /\ boot.pc \in {"loaded", "serving"} =>
                   hist.count >= 1 /\ mgr.data # PreLoad
             /\ \A r \in Readers :
                   /\ rd[r].pc # "idle" => ServerUp
                   /\ HasHandle(r) => rd[r].data # PreLoad /\ rd[r].epoch >= 1
             /\ boot.pc = "aborted" =>
                   /\ hist.count = 0 /\ boot.task = "none"
                   /\ \A r \in Readers : rd[r].pc = "idle")
    /\ [][boot.pc = "aborted" => boot'.pc = "aborted"]_vars

\* a request of a server with a source has looked up a key and found the
\* value that the initial load installed
C38_Witness ==
    /\ boot.source /\ ServerUp /\ hist.count = 1
    /\ \E r \in Readers :
          /\ HasHandle(r) /\ rd[r].data = PreLoad + 1
          /\ rd[r].value \in Vals
          /\ rd[r].value = get(hist.installed, rd[r].key)

\* C39: a periodic refresh that fails is skipped: the step leaves the
\* manager and its snapshot as they were and the task waiting for the next
\* tick, which is due one period after the one that failed and is taken when
\* its time has come; the loop never ends; and a refresh that succeeds
\* installs what it read as the current snapshot.
C39_FailedRefreshSkipped ==
    /\ [][/\ (boot.task = "ticked" /\ boot'.task \notin {"ticked", "updating"}) =>
                /\ boot'.task = "waiting"
                /\ boot'.interval = boot.interval
                /\ arcs' = arcs /\ mgr' = mgr /\ hist' = hist
          /\ (boot.task = "waiting" /\ boot'.task = "ticked") =>
                boot'.interval.deadline = boot.interval.deadline + boot.period
          /\ (boot.task = "updating" /\ boot'.task = "waiting") =>
                /\ Newest(boot'.log) = "Finished"
                /\ arcs[mgr.data] = upd[Refresher].new_data
                /\ hist.installed = upd[Refresher].new_data
          /\ Looping => Looping']_vars
    /\ [](boot.task = "waiting" /\ boot.now >= boot.interval.deadline =>
             ENABLED IntervalTick)

\* the first periodic refresh failed, the second one installed a map with
\* other contents than the one of the initial load, and a request now reads
\* it
C39_Witness ==
    /\ boot.log = <<"failed", "Finished">>
    /\ hist.count = 2
    /\ arcs[mgr.data] = hist.installed
    /\ arcs[mgr.data] # arcs[PreLoad + 1]
    /\ \E r \in Readers : HasHandle(r) /\ rd[r].data = mgr.data

\* C40: the launcher's refresh task does not update right after the
\* initial load: every tick of its interval, the first one included, comes
\* at least one update_interval after the initial load was complete.
C40_WaitsBeforeFirstUpdate ==
    [][(boot.program = "launcher" /\ boot.task = "waiting" /\ boot'.task = "ticked") =>
          boot.now >= boot.loaded_at + boot.period]_vars

====
